---- MODULE Spec2Model ----
(***************************************************************************)
(* Negotiation orchestration core of the shopping assistant:               *)
(*   - SessionManager            (IndexedDB session store)                 *)
(*   - ShoppingAssistantServiceWorker (session orchestrator)               *)
(*   - CrewAIAgent.executeNegotiation (bounded round loop)                 *)
(* Time is counted in weeks: the only durations the modelled code compares *)
(* are the 7-day expiry offset and the 7-day staleness window.             *)
(***************************************************************************)
EXTENDS Integers, Sequences, FiniteSets, TLC

\* ------------------------------------------------------------------ bounds
\* Last clock value (weeks) the model explores.
MaxTime == 1
\* Longest negotiationLog a store client builds with addNegotiationStep.
MaxLog == 2
\* Tasks (runs of executeNegotiation) the orchestrator starts in one behaviour.
MaxTasks == 2
\* Sessions startNegotiation creates in one behaviour.
MaxSessions == 1
\* saveSession calls that may be rejected in one behaviour.
MaxSaveFaults == 2
\* Deals acceptDeal records in one behaviour.
MaxDeals == 1
\* Largest config.maxNegotiationRounds of the agent.
MaxRounds == 3
\* findSellers calls of a discovery client
MaxCalls == 2
\* connect and disconnect calls made on one protocol client
MaxClientCalls == 3
\* Most calls of the decision methods of CrewAIAgent.
MaxEngineCalls == 2
\* Most runs of the cleanup alarm, and where the clock stops when the
\* alarm is modelled (weeks).
MaxSweeps == 1
MaxSweepTime == 2
\* The notification manager's clock stops here (half hours: a day and an
\* hour), and most createNotification calls within one clock hour.
MaxNotifyClock == 50
MaxNotifyCalls == 3
\* Most addNegotiationStep and updateSessionStatus calls of one behaviour.
MaxWriters == 2
\* largest retryAttempts a discovery client is configured with
MaxAttempts == 6
\* the discovery client's clock stops here (ms)
MaxClock == 600001

\* ------------------------------------------------------- program constants
\* expiresAt = startTime + 7 * 24 * 60 * 60 * 1000 ms, i.e. one week.
ExpiryOffset == 1

\* Session ids (crypto.randomUUID values); IdOrder is their key order in
\* the object store.
IdOrder == <<"s1", "s2">>
SessionIds == {IdOrder[i] : i \in DOMAIN IdOrder}
IdRank(id) == CHOOSE i \in DOMAIN IdOrder : IdOrder[i] = id

Statuses == {"pending", "active", "completed", "failed"}

\* JavaScript values that are not records of the session.
Undefined == [type |-> "undefined"]
Null == [type |-> "null"]
\* A Date object holding the instant t.
Date(t) == [type |-> "Date", t |-> t]
\* The ISO string JSON serialisation would turn a Date into.
IsoString(t) == [type |-> "string", t |-> t]
IsDate(v) == v.type = "Date"
\* new Date(v): v a Date or a date string; the result is a Date at the same
\* instant.
NewDate(v) == [type |-> "Date", t |-> v.t]

Max(a, b) == IF a >= b THEN a ELSE b
Min(a, b) == IF a <= b THEN a ELSE b
SeqToSet(s) == {s[i] : i \in DOMAIN s}

VARIABLES
    now,            \* the clock (weeks)
    store,          \* object store 'sessions' (keyPath sessionId): a set of rows
    lastSaved,      \* history: id -> the session handed to the last successful save
    cleanupResult,  \* <<n>>: value the last cleanupExpiredSessions resolved with
    activeSessions, \* the service worker's in-memory map: id -> session object
    tasks,          \* runs of executeNegotiation in flight: task number -> record
    started,        \* number of tasks created so far
    issued,         \* number of session ids crypto.randomUUID has handed out
    mcp,            \* MCPClient: [isConnected, currentEndpoint]
    userStats,      \* chrome.storage.local 'user_stats'
    deals,          \* chrome.storage.local 'successful_deals', newest first
    saveFaults,     \* number of saveSession calls that have been rejected
    agent,          \* the run of CrewAIAgent.executeNegotiation: locals and position
    discovery,      \* DiscoveryClient: config, cache, clock, the findSellers call
    calls,          \* MCPClient: the connect and disconnect calls in flight
    sessionStats,   \* what the last getSessionStats call resolved with
    engine,         \* CrewAIAgent's decision methods: the call in progress or the last one
    reply,          \* what sendResponse answered to the last request that was refused
    sweep,          \* the runs of the 'cleanup_sessions' alarm handler
    notifier,       \* NotificationManager: preferences, notificationCount, its timers
    writers         \* SessionManager: the read-modify-save calls in flight

storeVars == <<now, store, lastSaved, cleanupResult>>
workerVars == <<activeSessions, tasks, started, issued, mcp, userStats, deals,
                saveFaults>>
orchVars == <<workerVars, agent, discovery, calls, sessionStats, engine, reply, sweep,
              notifier, writers>>
vars == <<now, store, lastSaved, cleanupResult, activeSessions, tasks, started,
          issued, mcp, userStats, deals, saveFaults, agent, discovery, calls,
          sessionStats, engine, reply, sweep, notifier, writers, notifier, writers>>

\* ------------------------------------------------------------ SessionManager

\* SessionManager.createSession: a new pending session.
CreateSession(id, price, t) ==
    [sessionId |-> id,
     productInfo |-> [price |-> price],
     preferences |-> Undefined,
     status |-> "pending",
     sellerEndpoint |-> Undefined,
     currentOffer |-> Undefined,
     negotiationLog |-> <<>>,
     startTime |-> Date(t),
     lastUpdate |-> Date(t),
     expiresAt |-> Date(t + ExpiryOffset)]

\* The structured clone IndexedDB stores: a Date stays a Date.
CloneValue(v) == IF IsDate(v) THEN Date(v.t) ELSE v

\* What a JSON-based store would keep instead: Dates become strings.
JsonCloneValue(v) == IF IsDate(v) THEN IsoString(v.t) ELSE v

\* The clone of a session record: its dates, the offer's timestamp and the
\* log's timestamps are cloned, by the structured clone or as JSON.
CloneWith(asJson, s) ==
    LET Clone(v) == IF asJson THEN JsonCloneValue(v) ELSE CloneValue(v)
    IN [s EXCEPT
          !.startTime = Clone(@),
          !.lastUpdate = Clone(@),
          !.expiresAt = Clone(@),
          !.currentOffer = IF @ = Undefined THEN @
                           ELSE [@ EXCEPT !.timestamp = Clone(@)],
          !.negotiationLog = [i \in DOMAIN @ |-> [@[i] EXCEPT !.timestamp = Clone(@)]]]

JsonClone(s) == CloneWith(TRUE, s)

StructuredClone(s) == CloneWith(FALSE, s)

\* IDBObjectStore.put with keyPath 'sessionId': the row with the same key is
\* replaced.
IDBPut(st, row) == {r \in st : r.sessionId # row.sessionId} \cup {row}

\* saveSession: sessionToSave repeats the session's fields (dates and log
\* timestamps as they are), and put stores its structured clone.
SaveSession(st, session) ==
    LET sessionToSave ==
          [session EXCEPT
             !.negotiationLog = [i \in DOMAIN @ |-> [@[i] EXCEPT !.timestamp = @]]]
    IN IDBPut(st, StructuredClone(sessionToSave))

HasRow(st, id) == \E r \in st : r.sessionId = id
RowOf(st, id) == CHOOSE r \in st : r.sessionId = id

\* The Date restoration getSession, getActiveSessions and exportSessions apply.
RestoreDates(row) ==
    [row EXCEPT
       !.startTime = NewDate(@),
       !.lastUpdate = NewDate(@),
       !.expiresAt = NewDate(@),
       !.negotiationLog = [i \in DOMAIN @ |-> [@[i] EXCEPT !.timestamp = NewDate(@)]]]

\* getSession: the row with its dates restored, or null.
GetSession(st, id) ==
    IF HasRow(st, id) THEN RestoreDates(RowOf(st, id)) ELSE Null

\* The rows of the store in primary-key order.
RowsByKey(st) ==
    LET present == SelectSeq(IdOrder, LAMBDA id : HasRow(st, id))
    IN [i \in DOMAIN present |-> RowOf(st, present[i])]

\* index('status').getAll(status): the rows with that status, in key order.
StatusIndexGetAll(st, status) ==
    SelectSeq(RowsByKey(st), LAMBDA r : r.status = status)

\* The same query without the expiry filter.
GetActiveSessionsNoFilter(st, t) ==
    LET allSessions == StatusIndexGetAll(st, "active") \o StatusIndexGetAll(st, "pending")
    IN [i \in DOMAIN allSessions |-> RestoreDates(allSessions[i])]

\* getActiveSessions: active rows, then pending rows, dates restored, those
\* with expiresAt > new Date() kept.
GetActiveSessions(st, t) ==
    LET allSessions == StatusIndexGetAll(st, "active") \o StatusIndexGetAll(st, "pending")
        restored == [i \in DOMAIN allSessions |-> RestoreDates(allSessions[i])]
    IN SelectSeq(restored, LAMBDA s : s.expiresAt.t > t)

\* deleteSession: store.delete(sessionId).
DeleteSession(st, id) == {r \in st : r.sessionId # id}

\* index('expiresAt') restricted to IDBKeyRange.upperBound(t) (closed): the
\* rows with expiresAt <= t in expiry order, ties in key order.
ExpiresAtIndexUpTo(st, t) ==
    SortSeq(SelectSeq(RowsByKey(st), LAMBDA r : r.expiresAt.t <= t),
            LAMBDA a, b : \/ a.expiresAt.t < b.expiresAt.t
                          \/ /\ a.expiresAt.t = b.expiresAt.t
                             /\ IdRank(a.sessionId) < IdRank(b.sessionId))

\* The cursor loop of cleanupExpiredSessions: cursor.delete(), deletedCount++
\* in its onsuccess, cursor.continue(); resolve(deletedCount) at the end.
RECURSIVE CursorLoop(_, _, _)
CursorLoop(st, cursor, deletedCount) ==
    IF cursor = <<>>
    THEN [store |-> st, deletedCount |-> deletedCount]
    ELSE CursorLoop(st \ {Head(cursor)}, Tail(cursor), deletedCount + 1)

\* A cleanup whose key range is open at the upper end.
CleanupExpiredSessionsOpenRange(st, t) ==
    CursorLoop(st, SelectSeq(ExpiresAtIndexUpTo(st, t), LAMBDA r : r.expiresAt.t < t), 0)

\* cleanupExpiredSessions.
CleanupExpiredSessions(st, t) == CursorLoop(st, ExpiresAtIndexUpTo(st, t), 0)

\* ---------------------------------------------- the store and its clients

\* History of the last saved session per id.
Remember(ls, session) ==
    [id \in DOMAIN ls \cup {session.sessionId} |->
        IF id = session.sessionId THEN session ELSE ls[id]]
Forget(ls, ids) == [id \in DOMAIN ls \ ids |-> ls[id]]

\* A client creates a session and saves it.
StoreSaveNew(id) ==
    /\ ~HasRow(store, id)
    /\ LET session == CreateSession(id, 100, now)
       IN /\ store' = SaveSession(store, session)
          /\ lastSaved' = Remember(lastSaved, session)
    /\ UNCHANGED <<now, cleanupResult>>
    /\ UNCHANGED orchVars

\* updateSessionStatus(sessionId, status, additionalData): read, modify,
\* save; additionalData is nothing or a currentOffer.
StoreUpdateSessionStatus(id, status, withOffer) ==
    /\ HasRow(store, id)
    /\ LET session == GetSession(store, id)
           updated == [session EXCEPT
                         !.status = status,
                         !.lastUpdate = Date(now),
                         !.currentOffer =
                            IF withOffer
                            THEN [price |-> 80, rounds |-> 3, timestamp |-> Date(now)]
                            ELSE @]
       IN /\ store' = SaveSession(store, updated)
          /\ lastSaved' = Remember(lastSaved, updated)
    /\ UNCHANGED <<now, cleanupResult>>
    /\ UNCHANGED orchVars

\* addNegotiationStep(sessionId, step): read, push, save.
StoreAddNegotiationStep(id) ==
    /\ HasRow(store, id)
    /\ Len(RowOf(store, id).negotiationLog) < MaxLog
    /\ LET session == GetSession(store, id)
           step == [round |-> Len(session.negotiationLog),
                    action |-> IF session.negotiationLog = <<>> THEN "analyze" ELSE "counter",
                    timestamp |-> Date(now)]
           updated == [session EXCEPT
                         !.negotiationLog = Append(@, step),
                         !.lastUpdate = Date(now)]
       IN /\ store' = SaveSession(store, updated)
          /\ lastSaved' = Remember(lastSaved, updated)
    /\ UNCHANGED <<now, cleanupResult>>
    /\ UNCHANGED orchVars

StoreDeleteSession(id) ==
    /\ HasRow(store, id)
    /\ store' = DeleteSession(store, id)
    /\ lastSaved' = Forget(lastSaved, {id})
    /\ UNCHANGED <<now, cleanupResult>>
    /\ UNCHANGED orchVars

StoreCleanup ==
    /\ LET res == CleanupExpiredSessions(store, now)
       IN /\ store' = res.store
          /\ cleanupResult' = <<res.deletedCount>>
          /\ lastSaved' = Forget(lastSaved, {r.sessionId : r \in store \ res.store})
    /\ UNCHANGED now
    /\ UNCHANGED orchVars

Tick ==
    /\ now < MaxTime
    /\ now' = now + 1
    /\ UNCHANGED <<store, lastSaved, cleanupResult>>
    /\ UNCHANGED orchVars

StoreInit ==
    /\ now = 0
    /\ store = {}
    /\ lastSaved = <<>>
    /\ cleanupResult = <<>>

\* storage-manager's defaultStats; the orchestrator's updateStats adds the
\* key completedDeals later.
DefaultStats ==
    [totalSavings |-> 0,
     dealsCompleted |-> 0,
     activeNegotiations |-> 0,
     successRate |-> <<0, 1>>,
     averageDiscount |-> <<0, 1>>,
     completedDeals |-> Undefined]

\* No run of CrewAIAgent.executeNegotiation.
NoRun == [pc |-> "none"]
\* getSessionStats has not been called.
NoStats == [pc |-> "none"]

\* CrewAIAgent after initialize: no decision method has been called. calls
\* counts the calls of analyzeNegotiationOpportunity and analyzeOffer;
\* requests (history) counts the callLLM requests of the call.
NewEngine == [pc |-> "idle", calls |-> 0, requests |-> 0]

\* getDefaultPreferences: maxNotificationsPerHour
DefaultMaxNotificationsPerHour == 10
\* new NotificationManager(): the default preferences, an empty
\* notificationCount, no timer. The clock counts half hours. calls, passed
\* and created (history) count, for the clock hour that is running, the
\* createNotification calls, those that got past canSendNotification and
\* the notifications created; last is the last call.
NewNotificationManager ==
    [clock |-> 0,
     maxNotificationsPerHour |-> DefaultMaxNotificationsPerHour,
     notificationCount |-> <<>>,
     timers |-> {},
     calls |-> 0,
     passed |-> 0,
     created |-> 0,
     last |-> [result |-> "none"]]

\* No request has been refused.
NoReply == [type |-> "none"]

NotConnected == [isConnected |-> FALSE, currentEndpoint |-> Null]

\* retryAttempts: config?.retryAttempts || 3
DefaultRetryAttempts == 3
\* new DiscoveryClient(config): the configuration, an empty cache, no call.
\* calls counts the findSellers calls; requests, slept, source, response
\* and fromRegistry (history) record the registry requests and the delays
\* of the call, where its result came from, the registry's answer, and per
\* criteria the last list that came from the registry and when.
NewDiscoveryClient(retryAttempts) ==
    [retryAttempts |-> IF retryAttempts # 0 THEN retryAttempts ELSE DefaultRetryAttempts,
     clock |-> 0,
     cache |-> <<>>,
     calls |-> 0,
     pc |-> "idle",
     ci |-> 1,
     attempt |-> 0,
     requests |-> 0,
     slept |-> <<>>,
     source |-> "none",
     response |-> <<>>,
     result |-> <<>>,
     error |-> "none",
     fromRegistry |-> <<>>]

OrchInit ==
    /\ activeSessions = <<>>
    /\ tasks = <<>>
    /\ started = 0
    /\ issued = 0
    /\ mcp = NotConnected
    /\ userStats = DefaultStats
    /\ deals = <<>>
    /\ saveFaults = 0
    /\ calls = <<>>
    /\ sessionStats = NoStats
    /\ engine = NewEngine
    /\ reply = NoReply
    /\ sweep = [runs |-> 0]
    /\ notifier = NewNotificationManager
    /\ writers = <<>>

StoreSpecInit == StoreInit /\ OrchInit /\ agent = NoRun /\ discovery = NewDiscoveryClient(0)

StoreNext ==
    \/ \E id \in SessionIds : StoreSaveNew(id)
    \/ \E id \in SessionIds, status \in Statuses, withOffer \in BOOLEAN :
          StoreUpdateSessionStatus(id, status, withOffer)
    \/ \E id \in SessionIds : StoreAddNegotiationStep(id)
    \/ \E id \in SessionIds : StoreDeleteSession(id)
    \/ StoreCleanup
    \/ Tick

SpecStore == StoreSpecInit /\ [][StoreNext]_vars

\* ------------------------------------------- SessionManager.getSessionStats

\* reduce((sum, session) => sum + f(session), 0)
RECURSIVE SumOver(_, _)
SumOver(sessions, key) ==
    IF sessions = <<>> THEN 0
    ELSE Head(sessions)[key] + SumOver(Tail(sessions), key)

\* The sessions kept without looking at expiresAt.
ValidSessionsNoFilter(sessions, t) == sessions
\* sessions.filter(s => new Date(s.expiresAt) > now)
ValidSessions(sessions, t) == SelectSeq(sessions, LAMBDA r : NewDate(r.expiresAt).t > t)

\* getSessionStats: store.getAll(), then the figures. Ratios are pairs
\* <<numerator, denominator>>, 0 is <<0, 1>>.
GetSessionStats(st, t) ==
    LET sessions == RowsByKey(st)
        validSessions == ValidSessions(sessions, t)
        active == SelectSeq(validSessions, LAMBDA r : r.status = "active" \/ r.status = "pending")
        completedSessions == SelectSeq(validSessions, LAMBDA r : r.status = "completed")
        durations == [i \in DOMAIN completedSessions |->
                        [v |-> NewDate(completedSessions[i].lastUpdate).t
                               - NewDate(completedSessions[i].startTime).t]]
        saved == [i \in DOMAIN completedSessions |->
                    LET r == completedSessions[i]
                    IN [v |-> IF r.currentOffer # Undefined /\ r.productInfo.price # 0
                              THEN LET savings == r.productInfo.price - r.currentOffer.price
                                   IN IF savings > 0 THEN savings ELSE 0
                              ELSE 0]]
    IN [totalSessions |-> Len(validSessions),
        activeSessions |-> Len(active),
        completedSessions |-> Len(completedSessions),
        successRate |-> IF Len(validSessions) > 0
                        THEN <<Len(completedSessions), Len(validSessions)>> ELSE <<0, 1>>,
        averageNegotiationTime |-> IF Len(completedSessions) > 0
                                   THEN <<SumOver(durations, "v"), Len(completedSessions)>>
                                   ELSE <<0, 1>>,
        totalSavings |-> SumOver(saved, "v")]

\* The rows a store can hold for a session: any status, no offer or an
\* offer below or above the product's price, expiresAt now or later.
StatsOfferPrices == {0, 80, 120}
StatsRows(id) ==
    {StructuredClone(
        [CreateSession(id, 100, 0) EXCEPT
           !.status = status,
           !.currentOffer = IF offer = 0 THEN Undefined
                            ELSE [price |-> offer, rounds |-> 3, timestamp |-> Date(0)],
           !.lastUpdate = Date(1),
           !.expiresAt = Date(expires)]) :
        status \in Statuses, offer \in StatsOfferPrices, expires \in 1 .. MaxTime + 1}
\* The stores: for every session id no row, or one of its rows.
StatsStores ==
    LET AllRows == UNION {StatsRows(id) : id \in SessionIds}
        Picks == {pick \in [SessionIds -> {{}} \cup {{r} : r \in AllRows}] :
                     \A id \in SessionIds : pick[id] \subseteq StatsRows(id)}
    IN {UNION {pick[id] : id \in SessionIds} : pick \in Picks}

\* getSessionStats is called and resolves.
GetSessionStatsCall ==
    /\ sessionStats' = [pc |-> "resolved", stats |-> GetSessionStats(store, now)]
    /\ UNCHANGED <<storeVars, workerVars, agent, discovery, calls, engine, reply, sweep, notifier, writers>>

SessionStatsInit ==
    /\ now \in 0 .. MaxTime
    /\ store \in StatsStores
    /\ lastSaved = [id \in {r.sessionId : r \in store} |-> RestoreDates(RowOf(store, id))]
    /\ cleanupResult = <<>>
    /\ OrchInit
    /\ agent = NoRun
    /\ discovery = NewDiscoveryClient(0)

SessionStatsNext == GetSessionStatsCall

SpecSessionStats == SessionStatsInit /\ [][SessionStatsNext]_vars

\* ------------------------------------------- ShoppingAssistantServiceWorker

\* Product prices and the preferences the negotiation modal can send
\* (maxPrice 0 is what the modal sends for an empty max-price field).
Prices == {100}
PrefChoices ==
    {Undefined,
     [desiredDiscount |-> 20, maxPrice |-> 0],
     [desiredDiscount |-> 10, maxPrice |-> 85]}
\* sellers[0].mcpEndpoint as discovery ranks it for the session's product.
SellerFor(id) == [endpoint |-> IF id = "s1" THEN "e1" ELSE "e2"]
\* data.finalPrice of the seller's initiateNegotiation answer; 0 stands for
\* an answer without finalPrice.
RemoteFinalPrices == {0, 120}

\* session.preferences?.desiredDiscount || 15
DefaultDiscount == 15
\* negotiationResult.data?.finalPrice || session.productInfo.price * 0.85
DefaultFinalPercent == 85
\* currentOffer.rounds as executeNegotiation writes it
OfferRounds == 3

\* Math.round(num / den) for num >= 0, den > 0.
MathRound(num, den) == (2 * num + den) \div (2 * den)

\* The session startNegotiation builds.
NewSession(id, price, prefs, t) ==
    [sessionId |-> id,
     productInfo |-> [price |-> price],
     preferences |-> prefs,
     status |-> "pending",
     sellerEndpoint |-> Undefined,
     currentOffer |-> Undefined,
     negotiationLog |-> <<>>,
     startTime |-> Date(t),
     lastUpdate |-> Date(t),
     expiresAt |-> Date(t + ExpiryOffset)]

\* Map.set(session.sessionId, session)
MapSet(m, session) ==
    [id \in DOMAIN m \cup {session.sessionId} |->
        IF id = session.sessionId THEN session ELSE m[id]]

RECURSIVE SumSavings(_, _)
SumSavings(ids, m) ==
    IF ids = {} THEN 0
    ELSE LET id == CHOOSE x \in ids : TRUE
             rest == SumSavings(ids \ {id}, m)
         IN IF m[id].currentOffer # Undefined
            THEN rest + (m[id].productInfo.price - m[id].currentOffer.price)
            ELSE rest

\* updateStats followed by storageManager.updateStats: the figures computed
\* from the in-memory map are merged into the stored stats.
UpdateStats(stats, m) ==
    LET completedDeals == {id \in DOMAIN m : m[id].status = "completed"}
        n == Cardinality(DOMAIN m)
    IN [stats EXCEPT
          !.activeNegotiations = Cardinality({id \in DOMAIN m : m[id].status = "active"}),
          !.totalSavings = SumSavings(completedDeals, m),
          !.completedDeals = Cardinality(completedDeals),
          !.successRate = IF n > 0 THEN <<Cardinality(completedDeals), n>> ELSE <<0, 1>>]

\* One saveSession call of the orchestrator: the put request succeeds, or
\* it fires onerror and the promise rejects.
SaveOutcome(ok) ==
    /\ ~ok => saveFaults < MaxSaveFaults
    /\ saveFaults' = IF ok THEN saveFaults ELSE saveFaults + 1

\* updateSession(session): lastUpdate, Map.set, saveSession; when the save
\* resolves, broadcastDealUpdate and updateStats. When it rejects the
\* exception leaves updateSession before the stats are touched.
UpdateSession(session, ok) ==
    LET s == [session EXCEPT !.lastUpdate = Date(now)]
        m == MapSet(activeSessions, s)
    IN /\ SaveOutcome(ok)
       /\ activeSessions' = m
       /\ IF ok
          THEN /\ store' = SaveSession(store, s)
               /\ lastSaved' = Remember(lastSaved, s)
               /\ userStats' = UpdateStats(userStats, m)
          ELSE UNCHANGED <<store, lastSaved, userStats>>

InMap(id) == id \in DOMAIN activeSessions

\* A run of executeNegotiation, from the statement that calls it to its
\* return. pc: "call" (the caller awaits before it invokes the method),
\* "discover" (the 3 s timer and findSellers), "connect", "initiate",
\* "mock", "catch", "cleanup", "failure" (startNegotiation's catch
\* handler). rejected: the run ends as a rejected promise. stale (history):
\* the user rejected the session after the run entered executeNegotiation
\* and before it has written its outcome.
NewTask(id, caller, pc) ==
    [sid |-> id, caller |-> caller, pc |-> pc, rejected |-> FALSE, stale |-> FALSE]

AddTask(ts, k, task) == [j \in DOMAIN ts \cup {k} |-> IF j = k THEN task ELSE ts[j]]
RemoveTask(ts, k) == [j \in DOMAIN ts \ {k} |-> ts[j]]

\* executeNegotiation has been entered and has not returned.
InFlight(task) == task.pc \in {"discover", "connect", "initiate", "mock", "catch", "cleanup"}
\* executeNegotiation has been entered and has not yet written its outcome.
Undecided(task) == task.pc \in {"discover", "connect", "initiate", "mock"}

\* startNegotiation: create the session under a fresh id, Map.set,
\* saveSession, notify, then start executeNegotiation without awaiting it.
StartNegotiation(id, price, prefs, ok) ==
    /\ issued < Min(MaxSessions, Len(IdOrder))
    /\ id = IdOrder[issued + 1]
    /\ started < MaxTasks
    /\ LET session == NewSession(id, price, prefs, now)
       IN /\ SaveOutcome(ok)
          /\ activeSessions' = MapSet(activeSessions, session)
          /\ issued' = issued + 1
          /\ IF ok
             THEN /\ store' = SaveSession(store, session)
                  /\ lastSaved' = Remember(lastSaved, session)
                  /\ started' = started + 1
                  /\ tasks' = AddTask(tasks, started + 1, NewTask(id, "start", "call"))
             ELSE UNCHANGED <<store, lastSaved, started, tasks>>
    /\ UNCHANGED <<agent, discovery, calls, sessionStats, engine, reply, sweep, notifier, writers, now, cleanupResult, mcp, userStats, deals>>

\* executeNegotiation, step 1: status = 'active', updateSession.
ExecEnter(k, ok) ==
    /\ k \in DOMAIN tasks
    /\ tasks[k].pc = "call"
    /\ UpdateSession([activeSessions[tasks[k].sid] EXCEPT !.status = "active"], ok)
    /\ tasks' = [tasks EXCEPT ![k].pc = IF ok THEN "discover" ELSE "catch"]
    /\ UNCHANGED <<agent, discovery, calls, sessionStats, engine, reply, sweep, notifier, writers, now, cleanupResult, started, issued, mcp, deals>>

\* The 3 s timer has fired and findSellers has settled: it threw or
\* returned no seller, or sellers[0] is the seller to connect to.
ExecDiscover(k, found) ==
    /\ k \in DOMAIN tasks
    /\ tasks[k].pc = "discover"
    /\ tasks' = [tasks EXCEPT ![k].pc = IF found THEN "connect" ELSE "mock"]
    /\ UNCHANGED <<agent, discovery, calls, sessionStats, engine, reply, sweep, notifier, writers, storeVars, activeSessions, started, issued, mcp, userStats, deals,
                   saveFaults>>

\* MCPClient.disconnect(): a no-op when not connected; otherwise
\* client.close(), then isConnected and currentEndpoint are reset. When
\* close rejects (closeOk false) the catch block logs the error and the
\* two fields stay as they are.
MCPDisconnect(m, closeOk) ==
    IF ~m.isConnected THEN m
    ELSE IF closeOk THEN NotConnected ELSE m

\* MCPClient.connect(endpoint): returns at once when already connected to
\* that endpoint; otherwise disconnects a previous connection and connects.
\* result: "ok", "fail" (client.connect threw) or "toolsFail"
\* (listAvailableTools threw after isConnected was set).
MCPConnect(m, endpoint, result, closeOk) ==
    IF m.isConnected /\ m.currentEndpoint = endpoint
    THEN [client |-> m, threw |-> FALSE]
    ELSE CASE result = "ok" ->
                [client |-> [isConnected |-> TRUE, currentEndpoint |-> endpoint],
                 threw |-> FALSE]
           [] result = "toolsFail" ->
                [client |-> [isConnected |-> TRUE, currentEndpoint |-> endpoint],
                 threw |-> TRUE]
           [] OTHER ->
                [client |-> MCPDisconnect(m, closeOk), threw |-> TRUE]

\* connect has settled; on success initiateNegotiation is called.
ExecConnect(k, result, closeOk) ==
    /\ k \in DOMAIN tasks
    /\ tasks[k].pc = "connect"
    /\ LET r == MCPConnect(mcp, SellerFor(tasks[k].sid), result, closeOk)
       IN /\ mcp' = r.client
          /\ tasks' = [tasks EXCEPT ![k].pc = IF r.threw THEN "mock" ELSE "initiate"]
    /\ UNCHANGED <<agent, discovery, calls, sessionStats, engine, reply, sweep, notifier, writers, storeVars, activeSessions, started, issued, userStats, deals,
                   saveFaults>>

\* Tail of the try block of executeNegotiation: status = 'completed',
\* currentOffer, the deal_found message, updateSession. real: the seller
\* answered, so session.sellerEndpoint was assigned before.
Complete(k, finalPrice, real, ok) ==
    LET session == activeSessions[tasks[k].sid]
        done == [session EXCEPT
                   !.status = "completed",
                   !.sellerEndpoint = IF real THEN SellerFor(tasks[k].sid) ELSE @,
                   !.currentOffer = [price |-> finalPrice, rounds |-> OfferRounds,
                                     timestamp |-> Date(now)]]
    IN /\ UpdateSession(done, ok)
       /\ tasks' = [tasks EXCEPT ![k].pc = IF ok THEN "cleanup" ELSE "catch",
                                 ![k].stale = FALSE]

\* initiateNegotiation has settled. It throws when the client is not
\* connected (ensureConnected) and answers success: false on a remote
\* failure: both lead to the mock negotiation. On success the seller
\* endpoint is stored, finalPrice is the seller's or 85 % of the price.
ExecInitiate(k, success, remotePrice, ok) ==
    /\ k \in DOMAIN tasks
    /\ tasks[k].pc = "initiate"
    /\ IF ~mcp.isConnected \/ ~success
       THEN /\ ok
            /\ tasks' = [tasks EXCEPT ![k].pc = "mock"]
            /\ UNCHANGED <<store, lastSaved, activeSessions, userStats, saveFaults>>
       ELSE LET price == activeSessions[tasks[k].sid].productInfo.price
                finalPrice == IF remotePrice # 0 THEN remotePrice
                              ELSE (price * DefaultFinalPercent) \div 100
            IN Complete(k, finalPrice, TRUE, ok)
    /\ UNCHANGED <<agent, discovery, calls, sessionStats, engine, reply, sweep, notifier, writers, now, cleanupResult, started, issued, mcp, deals>>

\* The mock result without the cap.
MockResultNoCap(session) ==
    LET prefs == session.preferences
        price == session.productInfo.price
        targetDiscount == IF prefs # Undefined /\ prefs.desiredDiscount # 0
                          THEN prefs.desiredDiscount ELSE DefaultDiscount
        savings == MathRound(price * targetDiscount, 100)
    IN [finalPrice |-> price - savings, savings |-> savings]

\* The mock result: the desired (or default) discount, the price capped by
\* preferences.maxPrice when that is truthy.
MockResult(session) ==
    LET prefs == session.preferences
        price == session.productInfo.price
        targetDiscount == IF prefs # Undefined /\ prefs.desiredDiscount # 0
                          THEN prefs.desiredDiscount ELSE DefaultDiscount
        savings == MathRound(price * targetDiscount, 100)
    IN IF prefs # Undefined /\ prefs.maxPrice # 0
       THEN LET finalPrice == Min(prefs.maxPrice, price - savings)
            IN [finalPrice |-> finalPrice, savings |-> price - finalPrice]
       ELSE [finalPrice |-> price - savings, savings |-> savings]

\* The catch (realFlowError) block after its 2 s delay, then the tail.
ExecMock(k, ok) ==
    /\ k \in DOMAIN tasks
    /\ tasks[k].pc = "mock"
    /\ Complete(k, MockResult(activeSessions[tasks[k].sid]).finalPrice, FALSE, ok)
    /\ UNCHANGED <<agent, discovery, calls, sessionStats, engine, reply, sweep, notifier, writers, now, cleanupResult, started, issued, mcp, deals>>

\* The outer catch block: status = 'failed', updateSession; a second
\* rejected save leaves the method as a rejected promise.
ExecCatch(k, ok) ==
    /\ k \in DOMAIN tasks
    /\ tasks[k].pc = "catch"
    /\ UpdateSession([activeSessions[tasks[k].sid] EXCEPT !.status = "failed"], ok)
    /\ tasks' = [tasks EXCEPT ![k].pc = "cleanup", ![k].rejected = ~ok]
    /\ UNCHANGED <<agent, discovery, calls, sessionStats, engine, reply, sweep, notifier, writers, now, cleanupResult, started, issued, mcp, deals>>

\* The finally block: mcpClient.disconnect(), whose client.close()
\* resolves or rejects (closeOk). A rejected run started by
\* startNegotiation goes on to handleNegotiationFailure.
ExecCleanup(k, closeOk) ==
    /\ k \in DOMAIN tasks
    /\ tasks[k].pc = "cleanup"
    /\ mcp' = MCPDisconnect(mcp, closeOk)
    /\ tasks' = IF tasks[k].rejected /\ tasks[k].caller = "start"
                THEN [tasks EXCEPT ![k].pc = "failure"]
                ELSE RemoveTask(tasks, k)
    /\ UNCHANGED <<agent, discovery, calls, sessionStats, engine, reply, sweep, notifier, writers, storeVars, activeSessions, started, issued, userStats, deals,
                   saveFaults>>

\* handleNegotiationFailure: status = 'failed', updateSession.
HandleNegotiationFailure(k, ok) ==
    /\ k \in DOMAIN tasks
    /\ tasks[k].pc = "failure"
    /\ IF InMap(tasks[k].sid)
       THEN UpdateSession([activeSessions[tasks[k].sid] EXCEPT !.status = "failed"], ok)
       ELSE ok /\ UNCHANGED <<store, lastSaved, activeSessions, userStats, saveFaults>>
    /\ tasks' = RemoveTask(tasks, k)
    /\ UNCHANGED <<agent, discovery, calls, sessionStats, engine, reply, sweep, notifier, writers, now, cleanupResult, started, issued, mcp, deals>>

\* The field assignments of retryNegotiation before updateSession;
\* the first of the two leaves the status as it is.
ResetForRetryLogOnly(session) == [session EXCEPT !.negotiationLog = <<>>]
ResetForRetry(session) == [session EXCEPT !.status = "pending", !.negotiationLog = <<>>]

\* retryNegotiation: status = 'pending', the log emptied, updateSession,
\* then executeNegotiation is started without awaiting it; a rejected save
\* is caught and answered with false.
RetryNegotiation(id, ok) ==
    /\ InMap(id)
    /\ started < MaxTasks
    /\ UpdateSession(ResetForRetry(activeSessions[id]), ok)
    /\ IF ok
       THEN /\ started' = started + 1
            /\ tasks' = AddTask(tasks, started + 1, NewTask(id, "retry", "call"))
       ELSE UNCHANGED <<started, tasks>>
    /\ UNCHANGED <<agent, discovery, calls, sessionStats, engine, reply, sweep, notifier, writers, now, cleanupResult, issued, mcp, deals>>

\* handleDealAction(sessionId, 'reject'): status = 'failed', updateSession.
\* The runs in flight for the session are marked (history) as overtaken by
\* the user's decision.
HandleDealActionReject(id, ok) ==
    /\ InMap(id)
    /\ UpdateSession([activeSessions[id] EXCEPT !.status = "failed"], ok)
    /\ tasks' = [k \in DOMAIN tasks |->
                    IF tasks[k].sid = id /\ Undecided(tasks[k])
                    THEN [tasks[k] EXCEPT !.stale = TRUE] ELSE tasks[k]]
    /\ UNCHANGED <<agent, discovery, calls, sessionStats, engine, reply, sweep, notifier, writers, now, cleanupResult, started, issued, mcp, deals>>

\* handleDealAction(sessionId, 'counter'): executeNegotiation(session) is
\* called at once, so its first step runs in the same turn.
HandleDealActionCounter(id, ok) ==
    /\ InMap(id)
    /\ started < MaxTasks
    /\ UpdateSession([activeSessions[id] EXCEPT !.status = "active"], ok)
    /\ started' = started + 1
    /\ tasks' = AddTask(tasks, started + 1,
                        NewTask(id, "counter", IF ok THEN "discover" ELSE "catch"))
    /\ UNCHANGED <<agent, discovery, calls, sessionStats, engine, reply, sweep, notifier, writers, now, cleanupResult, issued, mcp, deals>>

\* recordSuccessfulDeal with updateStatsAfterDeal: the deal is put first in
\* the list, totalSavings and dealsCompleted grow, averageDiscount is the
\* ratio of the sums over the stored deals.
RECURSIVE SumField(_, _)
SumField(ds, field) ==
    IF ds = <<>> THEN 0 ELSE Head(ds)[field] + SumField(Tail(ds), field)

UpdateStatsAfterDeal(stats, ds, deal) ==
    LET totalOriginalValue == SumField(ds, "originalPrice")
    IN [stats EXCEPT
          !.totalSavings = @ + deal.savings,
          !.dealsCompleted = @ + 1,
          !.averageDiscount = IF totalOriginalValue > 0
                              THEN <<SumField(ds, "savings") * 100, totalOriginalValue>>
                              ELSE <<0, 1>>]

\* acceptDeal (message accept_deal, or handleDealAction 'accept'): checkout
\* info, the deal recorded with savings = price - currentOffer.price, the
\* deal-completed notification with the same figure.
AcceptDeal(id) ==
    /\ InMap(id)
    /\ activeSessions[id].currentOffer # Undefined
    /\ Len(deals) < MaxDeals
    /\ LET session == activeSessions[id]
           deal == [sessionId |-> id,
                    originalPrice |-> session.productInfo.price,
                    finalPrice |-> session.currentOffer.price,
                    savings |-> session.productInfo.price - session.currentOffer.price]
       IN /\ deals' = <<deal>> \o deals
          /\ userStats' = UpdateStatsAfterDeal(userStats, deals', deal)
    /\ UNCHANGED <<agent, discovery, calls, sessionStats, engine, reply, sweep, notifier, writers, storeVars, activeSessions, tasks, started, issued, mcp,
                   saveFaults>>

\* completePurchase: status = 'completed', updateSession, then
\* generateCheckoutInfo.
CompletePurchase(id, ok) ==
    /\ InMap(id)
    /\ UpdateSession([activeSessions[id] EXCEPT !.status = "completed"], ok)
    /\ UNCHANGED <<agent, discovery, calls, sessionStats, engine, reply, sweep, notifier, writers, now, cleanupResult, tasks, started, issued, mcp, deals>>

\* The 'update_stats' alarm: updateStats().
UpdateStatsAlarm ==
    /\ userStats' = UpdateStats(userStats, activeSessions)
    /\ UNCHANGED <<agent, discovery, calls, sessionStats, engine, reply, sweep, notifier, writers, storeVars, activeSessions, tasks, started, issued, mcp, deals,
                   saveFaults>>

\* A restore that skips the sessions whose status is active.
RestoreActiveSessionsPendingOnly(m, sessions) ==
    LET kept == SelectSeq(sessions, LAMBDA s : s.status # "active")
    IN [id \in DOMAIN m \cup {kept[i].sessionId : i \in DOMAIN kept} |->
           IF \E i \in DOMAIN kept : kept[i].sessionId = id
           THEN kept[CHOOSE i \in DOMAIN kept : kept[i].sessionId = id]
           ELSE m[id]]

\* restoreActiveSessions: every session getActiveSessions returns is put in
\* the map.
RestoreActiveSessions(m, sessions) ==
    [id \in DOMAIN m \cup {sessions[i].sessionId : i \in DOMAIN sessions} |->
        IF \E i \in DOMAIN sessions : sessions[i].sessionId = id
        THEN sessions[CHOOSE i \in DOMAIN sessions : sessions[i].sessionId = id]
        ELSE m[id]]

\* The browser stops the service worker and starts it again: the map, the
\* client and the running tasks are gone, initialize restores the active
\* sessions from the store.
Restart ==
    /\ activeSessions' = RestoreActiveSessions(<<>>, GetActiveSessions(store, now))
    /\ tasks' = <<>>
    /\ mcp' = NotConnected
    /\ UNCHANGED <<agent, discovery, calls, sessionStats, engine, reply, sweep, notifier, writers, storeVars, started, issued, userStats, deals, saveFaults>>

Init == StoreInit /\ OrchInit /\ agent = NoRun /\ discovery = NewDiscoveryClient(0)

Next ==
    \/ \E id \in SessionIds, price \in Prices, prefs \in PrefChoices, ok \in BOOLEAN :
          StartNegotiation(id, price, prefs, ok)
    \/ \E k \in DOMAIN tasks, ok \in BOOLEAN : ExecEnter(k, ok)
    \/ \E k \in DOMAIN tasks, found \in BOOLEAN : ExecDiscover(k, found)
    \/ \E k \in DOMAIN tasks, result \in {"ok", "fail", "toolsFail"},
          closeOk \in BOOLEAN : ExecConnect(k, result, closeOk)
    \/ \E k \in DOMAIN tasks, success \in BOOLEAN, remotePrice \in RemoteFinalPrices,
          ok \in BOOLEAN : ExecInitiate(k, success, remotePrice, ok)
    \/ \E k \in DOMAIN tasks, ok \in BOOLEAN : ExecMock(k, ok)
    \/ \E k \in DOMAIN tasks, ok \in BOOLEAN : ExecCatch(k, ok)
    \/ \E k \in DOMAIN tasks, closeOk \in BOOLEAN : ExecCleanup(k, closeOk)
    \/ \E k \in DOMAIN tasks, ok \in BOOLEAN : HandleNegotiationFailure(k, ok)
    \/ \E id \in SessionIds, ok \in BOOLEAN : RetryNegotiation(id, ok)
    \/ \E id \in SessionIds, ok \in BOOLEAN : HandleDealActionReject(id, ok)
    \/ \E id \in SessionIds, ok \in BOOLEAN : HandleDealActionCounter(id, ok)
    \/ \E id \in SessionIds, ok \in BOOLEAN : CompletePurchase(id, ok)
    \/ UpdateStatsAlarm
    \/ Restart
    \/ Tick

Spec == Init /\ [][Next]_vars

\* The orchestrator with a database that accepts every put and sellers
\* that can be reached, the user accepting deals, the statistics alarm.
NextStats ==
    \/ \E id \in SessionIds, price \in Prices, prefs \in PrefChoices :
          StartNegotiation(id, price, prefs, TRUE)
    \/ \E k \in DOMAIN tasks : ExecEnter(k, TRUE)
    \/ \E k \in DOMAIN tasks, found \in BOOLEAN : ExecDiscover(k, found)
    \/ \E k \in DOMAIN tasks, result \in {"ok", "fail", "toolsFail"},
          closeOk \in BOOLEAN : ExecConnect(k, result, closeOk)
    \/ \E k \in DOMAIN tasks, success \in BOOLEAN, remotePrice \in RemoteFinalPrices :
          ExecInitiate(k, success, remotePrice, TRUE)
    \/ \E k \in DOMAIN tasks : ExecMock(k, TRUE)
    \/ \E k \in DOMAIN tasks, closeOk \in BOOLEAN : ExecCleanup(k, closeOk)
    \/ \E id \in SessionIds : RetryNegotiation(id, TRUE)
    \/ \E id \in SessionIds : HandleDealActionReject(id, TRUE)
    \/ \E id \in SessionIds : HandleDealActionCounter(id, TRUE)
    \/ \E id \in SessionIds : AcceptDeal(id)
    \/ \E id \in SessionIds : CompletePurchase(id, TRUE)
    \/ UpdateStatsAlarm
    \/ Restart
    \/ Tick

SpecStats == Init /\ [][NextStats]_vars

\* ------------------------ ShoppingAssistantServiceWorker: refused requests

\* The session ids a message can name: those the worker issues and one it
\* never issued.
MessageIds == SessionIds \cup {"s9"}
\* message.action of a deal_action message.
DealActions == {"accept", "reject", "counter"}

\* An answer that reports success whatever happened.
SuccessResponse(message) == [type |-> "response", success |-> TRUE]
\* The catch block of handleMessage:
\* sendResponse({ success: false, error: error.message })
ErrorResponse(message) == [type |-> "response", success |-> FALSE, error |-> message]

\* The request is refused: the answer is sent and nothing else changes.
\* sessionId (history) is the id the request named.
Refuse(id, response) ==
    /\ reply' = response @@ [sessionId |-> id]
    /\ UNCHANGED <<storeVars, workerVars, agent, discovery, calls, sessionStats, engine, sweep, notifier, writers>>

\* deal_action for a session that is not in the map: handleDealAction
\* throws before its switch.
HandleDealActionNotFound(id, action) ==
    /\ ~InMap(id)
    /\ Refuse(id, ErrorResponse("Session not found"))

\* accept_deal for a session that is not in the map or has no
\* currentOffer: acceptDeal throws.
AcceptDealNotFound(id) ==
    /\ IF InMap(id) THEN activeSessions[id].currentOffer = Undefined ELSE TRUE
    /\ Refuse(id, ErrorResponse("Deal not found or no offer available"))

\* complete_purchase for a session that is not in the map.
CompletePurchaseNotFound(id) ==
    /\ ~InMap(id)
    /\ Refuse(id, ErrorResponse("Session not found"))

\* RETRY_NEGOTIATION for a session that is not in the map: retryNegotiation
\* returns false and handleMessage answers { success: retryResult }.
RetryNegotiationNotFound(id) ==
    /\ ~InMap(id)
    /\ Refuse(id, [type |-> "response", success |-> FALSE])

\* The orchestrator of SpecStats, with the requests it refuses.
NextMessages ==
    \/ NextStats
    \/ \E id \in MessageIds, action \in DealActions : HandleDealActionNotFound(id, action)
    \/ \E id \in MessageIds : AcceptDealNotFound(id)
    \/ \E id \in MessageIds : CompletePurchaseNotFound(id)
    \/ \E id \in MessageIds : RetryNegotiationNotFound(id)

SpecMessages == Init /\ [][NextMessages]_vars

\* ------------- ShoppingAssistantServiceWorker: the cleanup alarm, the deals

\* oneWeekAgo = now - (7 * 24 * 60 * 60 * 1000), in weeks.
StaleAfter == 1

\* The test of cleanupStaleSessions on one entry of the map.
IsStale(session, t) ==
    session.lastUpdate.t < t - StaleAfter /\ session.status # "completed"

\* The 'cleanup_sessions' alarm: cleanupStaleSessions. Every stale entry is
\* deleted from the map and then from the store. deleteOk: the
\* deleteSession requests succeed; otherwise the first one rejects, after
\* the entry has left the map, and the rejection ends the loop.
CleanupStaleSessions(deleteOk) ==
    /\ sweep.runs < MaxSweeps
    /\ LET stale == {id \in DOMAIN activeSessions : IsStale(activeSessions[id], now)}
           first == IF stale = {} THEN {}
                    ELSE {CHOOSE id \in stale : \A other \in stale : IdRank(id) <= IdRank(other)}
           fromMap == IF deleteOk THEN stale ELSE first
           fromStore == IF deleteOk THEN stale ELSE {}
       IN /\ activeSessions' = [id \in DOMAIN activeSessions \ fromMap |-> activeSessions[id]]
          /\ store' = {r \in store : r.sessionId \notin fromStore}
          /\ lastSaved' = Forget(lastSaved, fromStore \cap DOMAIN lastSaved)
    /\ sweep' = [runs |-> sweep.runs + 1]
    /\ UNCHANGED <<now, cleanupResult, tasks, started, issued, mcp, userStats, deals,
                   saveFaults, agent, discovery, calls, sessionStats, engine, reply,
                   notifier, writers>>

\* Time passes beyond MaxTime.
LateTick ==
    /\ now >= MaxTime
    /\ now < MaxSweepTime
    /\ now' = now + 1
    /\ UNCHANGED <<store, lastSaved, cleanupResult>>
    /\ UNCHANGED orchVars

\* mapSessionStatusToDealStatus
MapSessionStatusToDealStatus(status) ==
    CASE status = "pending" -> "negotiating"
      [] status = "active" -> "negotiating"
      [] status = "completed" -> "deal_ready"
      [] status = "failed" -> "failed"
      [] OTHER -> "negotiating"

\* getActiveDeals: the pending, active and completed sessions of the map,
\* each as the deal the popup shows.
GetActiveDeals(m) ==
    {[sessionId |-> m[id].sessionId,
      originalPrice |-> m[id].productInfo.price,
      currentOffer |-> IF m[id].currentOffer # Undefined /\ m[id].currentOffer.price # 0
                       THEN m[id].currentOffer.price ELSE m[id].productInfo.price,
      status |-> MapSessionStatusToDealStatus(m[id].status),
      lastUpdate |-> m[id].lastUpdate,
      rounds |-> IF m[id].currentOffer # Undefined THEN m[id].currentOffer.rounds ELSE 0] :
        id \in {i \in DOMAIN m : m[i].status \in {"pending", "active", "completed"}}}

\* The run k whose session is in the map. A run whose session the alarm
\* has deleted is not followed further.
RunInMap(k) == k \in DOMAIN tasks /\ InMap(tasks[k].sid)

\* The orchestrator with a database that accepts every put, the clock
\* running two weeks, and the cleanup alarm.
NextSweep ==
    \/ \E id \in SessionIds, price \in Prices, prefs \in PrefChoices :
          StartNegotiation(id, price, prefs, TRUE)
    \/ \E k \in DOMAIN tasks : RunInMap(k) /\ ExecEnter(k, TRUE)
    \/ \E k \in DOMAIN tasks, found \in BOOLEAN : RunInMap(k) /\ ExecDiscover(k, found)
    \/ \E k \in DOMAIN tasks, result \in {"ok", "fail", "toolsFail"} :
          RunInMap(k) /\ ExecConnect(k, result, TRUE)
    \/ \E k \in DOMAIN tasks, success \in BOOLEAN, remotePrice \in RemoteFinalPrices :
          RunInMap(k) /\ ExecInitiate(k, success, remotePrice, TRUE)
    \/ \E k \in DOMAIN tasks : RunInMap(k) /\ ExecMock(k, TRUE)
    \/ \E k \in DOMAIN tasks : RunInMap(k) /\ ExecCleanup(k, TRUE)
    \/ \E id \in SessionIds : HandleDealActionReject(id, TRUE)
    \/ Restart
    \/ Tick
    \/ LateTick
    \/ CleanupStaleSessions(TRUE)

SpecSweep == Init /\ [][NextSweep]_vars

\* ----------------- ShoppingAssistantServiceWorker: sellers that stay silent

\* The timer connect sets (30 s by default) fires while
\* client.connect(transport) is pending: the callback closes the transport
\* and throws inside the timer callback, outside the try block of connect,
\* which keeps awaiting client.connect(transport).
ConnectTimeout(k) ==
    /\ k \in DOMAIN tasks
    /\ tasks[k].pc = "connect"
    /\ ~(mcp.isConnected /\ mcp.currentEndpoint = SellerFor(tasks[k].sid))
    /\ tasks' = [tasks EXCEPT ![k].pc = "connectClosed"]
    /\ UNCHANGED <<agent, discovery, calls, sessionStats, engine, reply, sweep, notifier, writers, storeVars,
                   activeSessions, started, issued, mcp, userStats, deals, saveFaults>>

\* The library rejects client.connect(transport) after the transport was
\* closed: connect throws and the real flow falls back to the mock.
ConnectRejects(k, closeOk) ==
    /\ k \in DOMAIN tasks
    /\ tasks[k].pc = "connectClosed"
    /\ mcp' = MCPConnect(mcp, SellerFor(tasks[k].sid), "fail", closeOk).client
    /\ tasks' = [tasks EXCEPT ![k].pc = "mock"]
    /\ UNCHANGED <<agent, discovery, calls, sessionStats, engine, reply, sweep, notifier, writers, storeVars,
                   activeSessions, started, issued, userStats, deals, saveFaults>>

\* The orchestrator with a database that accepts every put, negotiations
\* started and retried, and sellers that may stay silent.
NextLive ==
    \/ \E id \in SessionIds, price \in Prices, prefs \in PrefChoices :
          StartNegotiation(id, price, prefs, TRUE)
    \/ \E id \in SessionIds : RetryNegotiation(id, TRUE)
    \/ \E k \in DOMAIN tasks : ExecEnter(k, TRUE)
    \/ \E k \in DOMAIN tasks, found \in BOOLEAN : ExecDiscover(k, found)
    \/ \E k \in DOMAIN tasks, result \in {"ok", "fail", "toolsFail"},
          closeOk \in BOOLEAN : ExecConnect(k, result, closeOk)
    \/ \E k \in DOMAIN tasks : ConnectTimeout(k)
    \/ \E k \in DOMAIN tasks, closeOk \in BOOLEAN : ConnectRejects(k, closeOk)
    \/ \E k \in DOMAIN tasks, success \in BOOLEAN, remotePrice \in RemoteFinalPrices :
          ExecInitiate(k, success, remotePrice, TRUE)
    \/ \E k \in DOMAIN tasks : ExecMock(k, TRUE)
    \/ \E k \in DOMAIN tasks, closeOk \in BOOLEAN : ExecCleanup(k, closeOk)

\* What the event loop and the timers guarantee to a run: a continuation
\* whose promise has settled is run; the 3 s timer fires and findSellers,
\* whose requests are aborted by their own timer, settles; while connect
\* waits for the seller either the seller answers or the connect timer
\* fires; an invocation on a connected client settles (the seller answers
\* or the library gives up); the 2 s timer of the mock fires; disconnect
\* settles. Nothing makes client.connect(transport) settle once the
\* transport was closed by the timer.
LiveFairness ==
    \A k \in 1 .. MaxTasks :
        /\ WF_vars(ExecEnter(k, TRUE))
        /\ WF_vars(\E found \in BOOLEAN : ExecDiscover(k, found))
        /\ WF_vars(\/ ConnectTimeout(k)
                   \/ \E result \in {"ok", "fail", "toolsFail"}, closeOk \in BOOLEAN :
                         ExecConnect(k, result, closeOk))
        /\ WF_vars(\E success \in BOOLEAN, remotePrice \in RemoteFinalPrices :
                      ExecInitiate(k, success, remotePrice, TRUE))
        /\ WF_vars(ExecMock(k, TRUE))
        /\ WF_vars(\E closeOk \in BOOLEAN : ExecCleanup(k, closeOk))

SpecLive == Init /\ [][NextLive]_vars /\ LiveFairness

\* ---------------------- ShoppingAssistantServiceWorker: two sessions at once

\* startNegotiation has been called for two products: both sessions are in
\* the map and in the store, and the run of each is about to begin.
TwoSessionsInit ==
    /\ now = 0
    /\ cleanupResult = <<>>
    /\ LET first == NewSession("s1", 100, Undefined, 0)
           second == NewSession("s2", 100, Undefined, 0)
       IN /\ activeSessions = MapSet(MapSet(<<>>, first), second)
          /\ store = SaveSession(SaveSession({}, first), second)
          /\ lastSaved = Remember(Remember(<<>>, first), second)
    /\ tasks = AddTask(AddTask(<<>>, 1, NewTask("s1", "start", "call")),
                       2, NewTask("s2", "start", "call"))
    /\ started = 2
    /\ issued = 2
    /\ mcp = NotConnected
    /\ userStats = DefaultStats
    /\ deals = <<>>
    /\ saveFaults = 0
    /\ calls = <<>>
    /\ sessionStats = NoStats
    /\ engine = NewEngine
    /\ reply = NoReply
    /\ sweep = [runs |-> 0]
    /\ notifier = NewNotificationManager
    /\ writers = <<>>
    /\ agent = NoRun
    /\ discovery = NewDiscoveryClient(0)

\* The two runs on the one protocol client, with a database that accepts
\* every put.
NextTwoSessions ==
    \/ \E k \in DOMAIN tasks : ExecEnter(k, TRUE)
    \/ \E k \in DOMAIN tasks, found \in BOOLEAN : ExecDiscover(k, found)
    \/ \E k \in DOMAIN tasks, result \in {"ok", "fail", "toolsFail"},
          closeOk \in BOOLEAN : ExecConnect(k, result, closeOk)
    \/ \E k \in DOMAIN tasks, success \in BOOLEAN, remotePrice \in RemoteFinalPrices :
          ExecInitiate(k, success, remotePrice, TRUE)
    \/ \E k \in DOMAIN tasks : ExecMock(k, TRUE)
    \/ \E k \in DOMAIN tasks, closeOk \in BOOLEAN : ExecCleanup(k, closeOk)

SpecTwoSessions == TwoSessionsInit /\ [][NextTwoSessions]_vars

\* ------------------------------------------------------ NotificationManager
\* Time is counted in half hours.

\* new Date().getHours()
HoursPerDay == 24
HalfHoursPerHour == 2
GetHours(clock) == (clock \div HalfHoursPerHour) % HoursPerDay
\* setTimeout(..., 3600000)
CountTimerDelay == 2
\* maxNotificationsPerHour values updatePreferences is called with.
MaxPerHourChoices == {1, 2}

\* this.notificationCount.get(currentHour) || 0
CountGet(notificationCount, key) ==
    IF key \in DOMAIN notificationCount THEN notificationCount[key] ELSE 0
CountSet(notificationCount, key, n) ==
    [k \in DOMAIN notificationCount \cup {key} |->
        IF k = key THEN n ELSE notificationCount[k]]
CountDelete(notificationCount, key) ==
    [k \in DOMAIN notificationCount \ {key} |-> notificationCount[k]]

\* A limiter that lets one notification too many through.
UnderLimitInclusive(count, maxNotificationsPerHour) == count <= maxNotificationsPerHour
\* canSendNotification: !(count >= maxNotificationsPerHour)
UnderLimit(count, maxNotificationsPerHour) == ~(count >= maxNotificationsPerHour)

NotifierStep(next) ==
    /\ notifier' = next
    /\ UNCHANGED <<storeVars, workerVars, agent, discovery, calls, sessionStats, engine,
                   reply, sweep, writers>>

\* createNotification(event, context). passes: notifications and the event
\* are enabled and it is not a quiet hour. When canSendNotification lets the
\* call through, the hour's count grows and a timer is set that deletes the
\* hour's key an hour later. chromeOk: the template exists and
\* chrome.notifications.create succeeds; otherwise the call returns null.
CreateNotification(passes, chromeOk) ==
    /\ notifier.calls < MaxNotifyCalls
    /\ LET currentHour == GetHours(notifier.clock)
           count == CountGet(notifier.notificationCount, currentHour)
           called == [notifier EXCEPT !.calls = @ + 1]
           Returns(n, result) ==
               [n EXCEPT !.last = [passes |-> passes, chromeOk |-> chromeOk,
                                   result |-> result]]
       IN NotifierStep(
            IF ~passes THEN Returns(called, "null")
            ELSE IF ~UnderLimit(count, notifier.maxNotificationsPerHour)
                 THEN Returns(called, "null")
                 ELSE LET counted ==
                            [called EXCEPT
                               !.notificationCount = CountSet(@, currentHour, count + 1),
                               !.timers = @ \cup {[key |-> currentHour,
                                                   at |-> notifier.clock + CountTimerDelay]},
                               !.passed = @ + 1]
                      IN IF chromeOk
                         THEN Returns([counted EXCEPT !.created = @ + 1], "id")
                         ELSE Returns(counted, "null"))

\* A timer of canSendNotification fires: the key of its hour is deleted.
CountTimerFires(timer) ==
    /\ timer \in notifier.timers
    /\ timer.at <= notifier.clock
    /\ NotifierStep([notifier EXCEPT
                       !.notificationCount = CountDelete(@, timer.key),
                       !.timers = @ \ {timer}])

\* updatePreferences({ maxNotificationsPerHour }), called before the first
\* createNotification of a clock hour.
UpdatePreferences(maxNotificationsPerHour) ==
    /\ notifier.maxNotificationsPerHour # maxNotificationsPerHour
    /\ notifier.calls = 0
    /\ NotifierStep([notifier EXCEPT !.maxNotificationsPerHour = maxNotificationsPerHour])

\* Half an hour passes; timers fire when they are due. A new clock hour
\* starts the counts of the history again.
NotifierTick ==
    /\ notifier.clock < MaxNotifyClock
    /\ \A timer \in notifier.timers : timer.at > notifier.clock
    /\ LET next == notifier.clock + 1
       IN NotifierStep(
            IF next \div HalfHoursPerHour # notifier.clock \div HalfHoursPerHour
            THEN [notifier EXCEPT !.clock = next, !.calls = 0, !.passed = 0, !.created = 0]
            ELSE [notifier EXCEPT !.clock = next])

NotifierNext ==
    \/ \E passes \in BOOLEAN, chromeOk \in BOOLEAN : CreateNotification(passes, chromeOk)
    \/ \E timer \in notifier.timers : CountTimerFires(timer)
    \/ \E maxNotificationsPerHour \in MaxPerHourChoices :
          UpdatePreferences(maxNotificationsPerHour)
    \/ NotifierTick

SpecNotifier == Init /\ [][NotifierNext]_vars

\* ------------------------------- SessionManager: read-modify-save in steps
\* addNegotiationStep and updateSessionStatus await getSession (one
\* transaction), change the object they got, and await saveSession (another
\* transaction). writers holds the calls in order of their start: op, the
\* session id, the object the call holds, pc ("save" while saveSession is
\* awaited, "returned" afterwards) and, once returned, the position of the
\* call among the returned ones.

\* Statuses updateSessionStatus is called with.
WriterStatuses == {"active", "completed"}

WriterStep(next) ==
    /\ writers' = next
    /\ UNCHANGED <<now, cleanupResult, workerVars, agent, discovery, calls, sessionStats,
                   engine, reply, sweep, notifier>>

\* addNegotiationStep(sessionId, step) up to its second await: getSession
\* has resolved with the stored session, the step is pushed, lastUpdate set.
AddNegotiationStepReads(id) ==
    /\ Len(writers) < MaxWriters
    /\ HasRow(store, id)
    /\ LET session == GetSession(store, id)
           step == [round |-> Len(writers) + 1, action |-> "counter",
                    timestamp |-> Date(now)]
       IN WriterStep(Append(writers,
                [op |-> "addNegotiationStep", sessionId |-> id, step |-> step,
                 pc |-> "save",
                 session |-> [session EXCEPT !.negotiationLog = Append(@, step),
                                             !.lastUpdate = Date(now)]]))
    /\ UNCHANGED <<store, lastSaved>>

\* updateSessionStatus(sessionId, status) up to its second await.
UpdateSessionStatusReads(id, status) ==
    /\ Len(writers) < MaxWriters
    /\ HasRow(store, id)
    /\ LET session == GetSession(store, id)
       IN WriterStep(Append(writers,
                [op |-> "updateSessionStatus", sessionId |-> id, status |-> status,
                 pc |-> "save",
                 session |-> [session EXCEPT !.status = status,
                                             !.lastUpdate = Date(now)]]))
    /\ UNCHANGED <<store, lastSaved>>

\* The calls that have returned.
Returned(ws) == {w \in DOMAIN ws : ws[w].pc = "returned"}

\* saveSession of a call resolves: the object the call holds replaces the
\* stored row, and the call returns.
WriterSaves(w) ==
    /\ w \in DOMAIN writers
    /\ writers[w].pc = "save"
    /\ store' = SaveSession(store, writers[w].session)
    /\ lastSaved' = Remember(lastSaved, writers[w].session)
    /\ WriterStep([writers EXCEPT
                     ![w] = [op |-> @.op, sessionId |-> @.sessionId, pc |-> "returned",
                             session |-> @.session,
                             order |-> Cardinality(Returned(writers)) + 1]
                            @@ (IF @.op = "addNegotiationStep"
                                THEN [step |-> @.step] ELSE [status |-> @.status])])

WritersNext ==
    \/ \E id \in SessionIds : StoreSaveNew(id)
    \/ \E id \in SessionIds : AddNegotiationStepReads(id)
    \/ \E id \in SessionIds, status \in WriterStatuses : UpdateSessionStatusReads(id, status)
    \/ \E w \in DOMAIN writers : WriterSaves(w)

SpecWriters == StoreSpecInit /\ [][WritersNext]_vars

\* -------------------------------------------------------------- MCPClient
\* The asynchronous methods of MCPClient, one step per await. calls is the
\* sequence of the connect and disconnect calls made so far: pc is
\* "closing" (connect awaits disconnect, which awaits client.close()),
\* "connecting" (connect awaits client.connect(transport)), "listing"
\* (connect awaits listAvailableTools), "disconnecting" (disconnect awaits
\* client.close()), "returned" or "threw".

\* The endpoints discovery hands to the orchestrator.
Endpoints == {SellerFor(id) : id \in SessionIds}

ClientStep(client, pending) ==
    /\ mcp' = client
    /\ calls' = pending
    /\ UNCHANGED <<storeVars, activeSessions, tasks, started, issued, userStats, deals,
                   saveFaults, agent, discovery, sessionStats, engine, reply, sweep, notifier, writers>>

\* connect(endpoint) is called and runs to its first await.
ConnectCalled(endpoint) ==
    /\ Len(calls) < MaxClientCalls
    /\ LET pc == IF mcp.isConnected /\ mcp.currentEndpoint = endpoint THEN "returned"
                 ELSE IF mcp.isConnected THEN "closing"
                 ELSE "connecting"
       IN ClientStep(mcp, Append(calls, [op |-> "connect", endpoint |-> endpoint,
                                         pc |-> pc]))

\* disconnect() is called: it returns at once when the client is not
\* connected, otherwise it awaits client.close().
DisconnectCalled ==
    /\ Len(calls) < MaxClientCalls
    /\ ClientStep(mcp, Append(calls, [op |-> "disconnect",
                                      endpoint |-> mcp.currentEndpoint,
                                      pc |-> IF mcp.isConnected THEN "disconnecting"
                                             ELSE "returned"]))

\* client.close() settles: when it resolves, isConnected and
\* currentEndpoint are reset; when it rejects the error is logged.
CloseSettles(p, closeOk) ==
    /\ p \in DOMAIN calls
    /\ calls[p].pc \in {"closing", "disconnecting"}
    /\ ClientStep(IF closeOk THEN NotConnected ELSE mcp,
                  [calls EXCEPT ![p].pc = IF @ = "closing" THEN "connecting"
                                          ELSE "returned"])

\* client.connect(transport) settles: when it resolves, currentEndpoint
\* and isConnected are set and listAvailableTools is called.
ConnectSettles(p, ok) ==
    /\ p \in DOMAIN calls
    /\ calls[p].pc = "connecting"
    /\ IF ok
       THEN ClientStep([isConnected |-> TRUE, currentEndpoint |-> calls[p].endpoint],
                       [calls EXCEPT ![p].pc = "listing"])
       ELSE ClientStep(mcp, [calls EXCEPT ![p].pc = "threw"])

\* client.listTools() settles: connect returns, or throws.
ToolsSettle(p, ok) ==
    /\ p \in DOMAIN calls
    /\ calls[p].pc = "listing"
    /\ ClientStep(mcp, [calls EXCEPT ![p].pc = IF ok THEN "returned" ELSE "threw"])

ClientNext ==
    \/ \E endpoint \in Endpoints : ConnectCalled(endpoint)
    \/ DisconnectCalled
    \/ \E p \in DOMAIN calls, closeOk \in BOOLEAN : CloseSettles(p, closeOk)
    \/ \E p \in DOMAIN calls, ok \in BOOLEAN : ConnectSettles(p, ok)
    \/ \E p \in DOMAIN calls, ok \in BOOLEAN : ToolsSettle(p, ok)

SpecClient == Init /\ [][ClientNext]_vars

\* ------------------------------------------------------------- CrewAIAgent

\* config.maxNegotiationRounds values the agent is configured with.
RoundLimits == 1 .. MaxRounds
\* Prices a seller offer can carry.
OfferPrices == {80, 90}
\* decision.decision values analyzeOffer can return ("other" stands for any
\* string outside the four known ones).
Decisions == {"accept", "reject", "counter", "continue", "other"}

\* Strings are sequences of characters.
DigitChars == <<"0", "1", "2", "3", "4", "5", "6", "7", "8", "9">>
RECURSIVE NumberToString(_)
NumberToString(n) ==
    IF n < 10 THEN <<DigitChars[n + 1]>>
    ELSE NumberToString(n \div 10) \o <<DigitChars[(n % 10) + 1]>>

\* s.includes(sub)
Includes(s, sub) ==
    \E i \in 0 .. (Len(s) - Len(sub)) : SubSeq(s, i + 1, i + Len(sub)) = sub

\* `Maximum negotiation rounds (${maxNegotiationRounds}) reached`
MaxRoundsReason(n) ==
    <<"M","a","x","i","m","u","m"," ","n","e","g","o","t","i","a","t","i","o","n"," ",
      "r","o","u","n","d","s"," ","(">> \o NumberToString(n) \o
    <<")"," ","r","e","a","c","h","e","d">>
\* The words the specification expects in the reason.
RoundLimit == <<"r","o","u","n","d"," ","l","i","m","i","t">>
\* The other reasons, by the statement that produces them: the text of
\* analysis.reasoning, decision.reasoning and error.message is the
\* language model's or the runtime's.
OtherReason(tag) == <<"[", tag, "]">>

\* The loop test one round short.
LoopContinuesStrict(currentRound, maxNegotiationRounds) == currentRound < maxNegotiationRounds
\* while (currentRound <= this.config.maxNegotiationRounds)
LoopContinues(currentRound, maxNegotiationRounds) == currentRound <= maxNegotiationRounds

\* executeNegotiation has been called on a configured agent. decisions and
\* offers (history) count the analyzeOffer results and the makeOffer calls;
\* decision is the result of the last analyzeOffer, counterResponse that of
\* the makeOffer of the same round; scenario (history) holds while every request has succeeded and every
\* decision has been counter with a next action.
StartRun(n) ==
    [pc |-> "analyze",
     maxNegotiationRounds |-> n,
     currentRound |-> 0,
     lastSellerOffer |-> Null,
     negotiationLog |-> <<>>,
     result |-> Undefined,
     decision |-> Undefined,
     counterResponse |-> Undefined,
     decisions |-> 0,
     offers |-> 0,
     scenario |-> TRUE]

\* return { success: false, reason, negotiationLog }
Fail(a, reason, inScenario) ==
    [a EXCEPT !.pc = "done",
              !.result = [success |-> FALSE, reason |-> reason],
              !.scenario = @ /\ inScenario]

\* The test of the while loop, and the return after it.
LoopTest(a) ==
    IF LoopContinues(a.currentRound, a.maxNegotiationRounds)
    THEN [a EXCEPT !.pc = "decide"]
    ELSE Fail(a, MaxRoundsReason(a.maxNegotiationRounds), TRUE)

AgentStep(next) ==
    /\ agent' = next
    /\ UNCHANGED <<storeVars, workerVars, discovery, calls, sessionStats, engine, reply, sweep, notifier, writers>>

\* analyzeNegotiationOpportunity has settled: the round-0 log entry.
AgentAnalyze(shouldNegotiate) ==
    /\ agent.pc = "analyze"
    /\ LET a == [agent EXCEPT !.negotiationLog =
                                 Append(@, [round |-> 0, action |-> "analyze"])]
       IN AgentStep(IF shouldNegotiate
                    THEN [a EXCEPT !.pc = "productInfo"]
                    ELSE Fail(a, OtherReason("analysis.reasoning"), FALSE))

\* getProductInfo has settled.
AgentProductInfo(success) ==
    /\ agent.pc = "productInfo"
    /\ AgentStep(IF success
                 THEN [agent EXCEPT !.pc = "initiate"]
                 ELSE Fail(agent, OtherReason("no product information"), FALSE))

\* initiateNegotiation has settled: the initial offer, round 1, the first
\* loop test.
AgentInitiate(success, price) ==
    /\ agent.pc = "initiate"
    /\ AgentStep(IF success
                 THEN LoopTest([agent EXCEPT !.lastSellerOffer = [price |-> price],
                                             !.currentRound = 1])
                 ELSE Fail(agent, OtherReason("initiate failed"), FALSE))

\* The round's log entry filed under round 0.
DecisionStepRoundZero(currentRound, decision, lastSellerOffer) ==
    [round |-> 0,
     action |-> IF decision = "continue" THEN "counter" ELSE decision,
     sellerOffer |-> lastSellerOffer]
\* The entry pushed for the decision of a round.
DecisionStep(currentRound, decision, lastSellerOffer) ==
    [round |-> currentRound,
     action |-> IF decision = "continue" THEN "counter" ELSE decision,
     sellerOffer |-> lastSellerOffer]

\* The test that always lets the offer through.
NoNextActionNever(hasNextAction) == FALSE
\* if (!decision.nextAction)
NoNextAction(hasNextAction) == ~hasNextAction

\* analyzeOffer has settled: the round's log entry, then the switch.
AgentDecide(decision, hasNextAction) ==
    /\ agent.pc = "decide"
    /\ LET a == [agent EXCEPT
                   !.decision = [decision |-> decision, nextAction |-> hasNextAction],
                   !.counterResponse = Undefined,
                   !.decisions = @ + 1,
                   !.negotiationLog =
                       Append(@, DecisionStep(agent.currentRound, decision,
                                              agent.lastSellerOffer))]
       IN AgentStep(
            CASE decision = "accept" -> [a EXCEPT !.pc = "accept", !.scenario = FALSE]
              [] decision = "reject" -> Fail(a, OtherReason("decision.reasoning"), FALSE)
              [] decision \in {"counter", "continue"} ->
                    IF NoNextAction(hasNextAction)
                    THEN Fail(a, OtherReason("no next action"), FALSE)
                    ELSE [a EXCEPT !.pc = "offer",
                                   !.offers = @ + 1,
                                   !.scenario = @ /\ decision = "counter"]
              [] OTHER -> Fail(a, OtherReason("unknown decision"), FALSE))

\* acceptDeal has settled.
AgentAccept(success) ==
    /\ agent.pc = "accept"
    /\ AgentStep(IF success
                 THEN [agent EXCEPT
                         !.pc = "done",
                         !.result = [success |-> TRUE,
                                     finalOffer |-> [price |-> agent.lastSellerOffer.price,
                                                     rounds |-> agent.currentRound]]]
                 ELSE Fail(agent, OtherReason("accept failed"), FALSE))

\* What makeOffer can answer: a failure, or the data the seller's tool
\* returned, with the counter offer in data.counterOffer or as the data
\* itself.
OfferResponses ==
    {[success |-> FALSE]}
    \cup {[success |-> TRUE, data |-> [counterOffer |-> [price |-> price]]] :
             price \in OfferPrices}
    \cup {[success |-> TRUE, data |-> [price |-> price]] : price \in OfferPrices}

\* The seller's answer is dropped.
KeepLastOffer(data, lastSellerOffer) == lastSellerOffer
\* counterResponse.data.counterOffer || counterResponse.data
CounterOfferOf(data, lastSellerOffer) ==
    IF "counterOffer" \in DOMAIN data THEN data.counterOffer ELSE data

\* makeOffer has settled: the seller's counter offer, the next round, then
\* the 1 s delay.
AgentOffer(counterResponse) ==
    /\ agent.pc = "offer"
    /\ LET a == [agent EXCEPT !.counterResponse = counterResponse]
       IN AgentStep(IF counterResponse.success
                    THEN [a EXCEPT !.lastSellerOffer =
                                       CounterOfferOf(counterResponse.data, @),
                                   !.currentRound = @ + 1,
                                   !.pc = "delay"]
                    ELSE Fail(a, OtherReason("counter offer failed"), FALSE))

\* The delay is over: the loop test.
AgentDelay ==
    /\ agent.pc = "delay"
    /\ AgentStep(LoopTest(agent))

\* An awaited call throws: the catch block answers with error.message.
AgentCatch ==
    /\ agent.pc \in {"analyze", "productInfo", "initiate", "decide", "accept", "offer"}
    /\ AgentStep(Fail(agent, OtherReason("error.message"), FALSE))

AgentInit ==
    /\ StoreInit
    /\ OrchInit
    /\ agent \in {StartRun(n) : n \in RoundLimits}
    /\ discovery = NewDiscoveryClient(0)

AgentNext ==
    \/ \E shouldNegotiate \in BOOLEAN : AgentAnalyze(shouldNegotiate)
    \/ \E success \in BOOLEAN : AgentProductInfo(success)
    \/ \E success \in BOOLEAN, price \in OfferPrices : AgentInitiate(success, price)
    \/ \E decision \in Decisions, hasNextAction \in BOOLEAN : AgentDecide(decision, hasNextAction)
    \/ \E success \in BOOLEAN : AgentAccept(success)
    \/ \E counterResponse \in OfferResponses : AgentOffer(counterResponse)
    \/ AgentDelay
    \/ AgentCatch

SpecAgent == AgentInit /\ [][AgentNext]_vars

\* ---------------------------------------------------------- DiscoveryClient
\* Times are milliseconds. Ratings are in tenths (42 stands for 4.2),
\* success rates in hundredths (75 for 0.75), scores in ten-thousandths.

\* Criteria findSellers is called with. A criterion that is not given is
\* absent from the record. The first is the one executeNegotiation sends.
CriteriaChoices ==
    <<[productId |-> "p1", category |-> "electronics", minRating |-> 35,
       priceRange |-> <<0, 120>>],
      [productId |-> "p1", minRating |-> 35, maxResponseTime |-> 3000],
      [productId |-> "p1", minRating |-> 45],
      [productId |-> "p1", minRating |-> 35, specialty |-> "electronics"],
      [productId |-> "p1", minRating |-> 35]>>

\* Records the registry can answer with. A property the registry left out
\* is absent from the record; capabilities, when present, is an array.
RawHigh ==
    [seller_id |-> "seller-high", seller_name |-> "High",
     mcp_connection |-> [endpoint_url |-> "https://high.example/mcp"],
     capabilities |-> <<"initiateNegotiation", "getProductInfo">>,
     rating |-> 45, success_rate |-> 90, specialties |-> <<"electronics">>]
RawLow ==
    [seller_id |-> "seller-low", seller_name |-> "Low",
     mcp_connection |-> [endpoint_url |-> "https://low.example/mcp"],
     capabilities |-> <<"initiateNegotiation">>,
     rating |-> 36, response_time_minutes |-> 1]
RawEmptyId == [RawLow EXCEPT !.seller_id = ""]
RawNoName == [f \in DOMAIN RawLow \ {"seller_name"} |-> RawLow[f]]
RawNoEndpoint == [RawLow EXCEPT !.mcp_connection = [api_key |-> "k"]]
RawNoCapabilities == [f \in DOMAIN RawLow \ {"capabilities"} |-> RawLow[f]]
RawEmptyCapabilities == [RawLow EXCEPT !.capabilities = <<>>]

\* data.sellers of the registry's answers.
RegistryResponses ==
    {<<>>,
     <<RawLow, RawHigh>>,
     <<RawHigh, RawEmptyId>>,
     <<RawNoName, RawHigh>>,
     <<RawNoEndpoint, RawNoCapabilities>>,
     <<RawHigh, RawEmptyCapabilities>>}
\* What makes an attempt throw: the abort on timeout (or a network error),
\* a response that is not ok (or a body without a sellers array).
AttemptFailures == {"abort", "http"}

\* x.f is there (not undefined).
Has(x, f) == f \in DOMAIN x
\* x.f is truthy, for a string and for a number.
TruthyString(x, f) == Has(x, f) /\ x[f] # ""
TruthyNumber(x, f) == Has(x, f) /\ x[f] # 0

\* private readonly CACHE_DURATION = 5 * 60 * 1000
CACHE_DURATION == 300000
\* Math.min(1000 * Math.pow(2, attempt - 1), 10000)
BackoffBase == 1000
BackoffCap == 10000
\* if (this.cache.size > 50) this.cleanupCache()
CacheSizeLimit == 50

\* validateSellerEndpoint: every operand of the && chain is truthy. An
\* array is truthy whatever its length.
ValidateSellerEndpoint(seller) ==
    /\ TruthyString(seller, "seller_id")
    /\ TruthyString(seller, "seller_name")
    /\ Has(seller, "mcp_connection")
    /\ TruthyString(seller.mcp_connection, "endpoint_url")
    /\ Has(seller, "capabilities")

\* normalizeSellerEndpoint (the fields filterSellers, sortSellers and the
\* orchestrator read).
NormalizeSellerEndpoint(seller) ==
    [sellerId |-> seller.seller_id,
     sellerName |-> seller.seller_name,
     mcpEndpoint |-> seller.mcp_connection.endpoint_url,
     capabilities |-> seller.capabilities,
     metadata |->
        [rating |-> IF TruthyNumber(seller, "rating") THEN seller.rating ELSE 0,
         averageResponseTime |->
            IF TruthyNumber(seller, "response_time_minutes")
            THEN seller.response_time_minutes * 60 * 1000 ELSE 5000,
         successRate |-> IF TruthyNumber(seller, "success_rate")
                         THEN seller.success_rate ELSE 50,
         specialties |-> IF Has(seller, "specialties") THEN seller.specialties ELSE <<>>]]

\* data.sellers.filter(validateSellerEndpoint).map(normalizeSellerEndpoint)
ValidSellers(sellers) ==
    LET kept == SelectSeq(sellers, ValidateSellerEndpoint)
    IN [i \in DOMAIN kept |-> NormalizeSellerEndpoint(kept[i])]

\* array.includes(x)
ArrayIncludes(array, x) == \E i \in DOMAIN array : array[i] = x

\* filterSellers: rating floor, response-time ceiling, specialty.
PassesFilter(seller, criteria) ==
    /\ ~(TruthyNumber(criteria, "minRating")
         /\ seller.metadata.rating < criteria.minRating)
    /\ ~(TruthyNumber(criteria, "maxResponseTime")
         /\ seller.metadata.averageResponseTime > criteria.maxResponseTime)
    /\ ~(TruthyString(criteria, "specialty")
         /\ ~ArrayIncludes(seller.metadata.specialties, criteria.specialty))

FilterSellers(sellers, criteria) ==
    SelectSeq(sellers, LAMBDA seller : PassesFilter(seller, criteria))

\* calculateSellerScore, in ten-thousandths.
AdvancedCaps == <<"getProductInfo", "checkDealStatus", "acceptDeal">>
CalculateSellerScore(seller, criteria) ==
    LET responseTimeScore == Max(0, 10000 - seller.metadata.averageResponseTime)
        specialtyBonus ==
            IF TruthyString(criteria, "specialty")
               /\ ArrayIncludes(seller.metadata.specialties, criteria.specialty)
            THEN 1000 ELSE 0
        capabilityBonus ==
            Len(SelectSeq(AdvancedCaps,
                          LAMBDA cap : ArrayIncludes(seller.capabilities, cap))) * 200
    IN seller.metadata.rating * 400 + seller.metadata.successRate * 30
       + (responseTimeScore \div 5) + specialtyBonus + capabilityBonus

\* sortSellers: Array.prototype.sort with scoreB - scoreA, a stable sort
\* that puts the higher score first.
RECURSIVE InsertByScore(_, _, _)
InsertByScore(sorted, seller, criteria) ==
    IF sorted = <<>> THEN <<seller>>
    ELSE IF CalculateSellerScore(seller, criteria)
               > CalculateSellerScore(Head(sorted), criteria)
         THEN <<seller>> \o sorted
         ELSE <<Head(sorted)>> \o InsertByScore(Tail(sorted), seller, criteria)

RECURSIVE SortSellers(_, _)
SortSellers(sellers, criteria) ==
    IF sellers = <<>> THEN <<>>
    ELSE InsertByScore(SortSellers(SubSeq(sellers, 1, Len(sellers) - 1), criteria),
                       sellers[Len(sellers)], criteria)

\* generateCacheKey: the parts that are joined with '|'. maxResponseTime
\* is not among them.
GenerateCacheKey(criteria) ==
    <<IF TruthyString(criteria, "productId") THEN criteria.productId ELSE "",
      IF TruthyString(criteria, "category") THEN criteria.category ELSE "",
      IF TruthyString(criteria, "location") THEN criteria.location ELSE "",
      IF TruthyString(criteria, "specialty") THEN criteria.specialty ELSE "",
      IF Has(criteria, "minRating") THEN NumberToString(criteria.minRating) ELSE <<>>,
      IF Has(criteria, "priceRange")
      THEN <<NumberToString(criteria.priceRange[1]), "-",
             NumberToString(criteria.priceRange[2])>>
      ELSE <<>>>>

\* The cache: key -> [data, timestamp].
CacheDelete(cache, key) == [k \in DOMAIN cache \ {key} |-> cache[k]]

\* An entry never expires.
IsExpiredNever(entry, t) == FALSE
\* Date.now() - cached.timestamp > this.CACHE_DURATION
IsExpired(entry, t) == t - entry.timestamp > CACHE_DURATION

\* getCached: the data of a live entry (hit: the value is not null); an
\* expired entry is deleted.
GetCached(cache, key, t) ==
    IF key \notin DOMAIN cache THEN [hit |-> FALSE, data |-> <<>>, cache |-> cache]
    ELSE IF IsExpired(cache[key], t)
         THEN [hit |-> FALSE, data |-> <<>>, cache |-> CacheDelete(cache, key)]
         ELSE [hit |-> TRUE, data |-> cache[key].data, cache |-> cache]

\* cleanupCache: the expired entries are deleted.
CleanupCache(cache, t) ==
    [k \in {key \in DOMAIN cache : ~IsExpired(cache[key], t)} |-> cache[k]]

\* setCached
SetCached(cache, key, data, t) ==
    LET set == [k \in DOMAIN cache \cup {key} |->
                   IF k = key THEN [data |-> data, timestamp |-> t] ELSE cache[k]]
    IN IF Cardinality(DOMAIN set) > CacheSizeLimit THEN CleanupCache(set, t) ELSE set

\* The fallbackSellers literal of getFallbackSellers.
FallbackSellers ==
    <<[sellerId |-> "demo-seller-001",
       sellerName |-> "Demo Electronics Store",
       mcpEndpoint |-> "wss://demo-seller.example.com/mcp",
       capabilities |-> <<"initiateNegotiation", "makeOffer", "getProductInfo",
                          "acceptDeal">>,
       metadata |-> [rating |-> 42, averageResponseTime |-> 2000, successRate |-> 75,
                     specialties |-> <<"electronics", "computers">>]],
      [sellerId |-> "demo-seller-002",
       sellerName |-> "Budget Deals Outlet",
       mcpEndpoint |-> "wss://budget-deals.example.com/mcp",
       capabilities |-> <<"initiateNegotiation", "makeOffer", "acceptDeal">>,
       metadata |-> [rating |-> 38, averageResponseTime |-> 3500, successRate |-> 65,
                     specialties |-> <<"home_garden", "electronics">>]]>>

\* A fallback that hands out the demo sellers as they are.
GetFallbackSellersUnfiltered(criteria) == FallbackSellers
\* getFallbackSellers: the demo sellers that pass filterSellers.
GetFallbackSellers(criteria) == FilterSellers(FallbackSellers, criteria)

\* The call of findSellers in progress, or the last one: its criteria.
DiscoveryCriteria == CriteriaChoices[discovery.ci]

\* The delay before the attempt after `attempt`, without the cap.
BackoffDelayUncapped(attempt) == BackoffBase * 2 ^ (attempt - 1)
\* Math.min(1000 * Math.pow(2, attempt - 1), 10000)
BackoffDelay(attempt) == Min(BackoffBase * 2 ^ (attempt - 1), BackoffCap)

DiscoveryStep(next) ==
    /\ discovery' = next
    /\ UNCHANGED <<storeVars, workerVars, agent, calls, sessionStats, engine, reply, sweep, notifier, writers>>

\* findSellers up to its first await: the cache key, getCached, and either
\* the return of the cached list or the first attempt of searchSellers.
FindSellers(ci) ==
    /\ discovery.pc \in {"idle", "done"}
    /\ discovery.calls < MaxCalls
    /\ LET criteria == CriteriaChoices[ci]
           cached == GetCached(discovery.cache, GenerateCacheKey(criteria), discovery.clock)
           call == [discovery EXCEPT !.calls = @ + 1, !.ci = ci, !.cache = cached.cache,
                                     !.requests = 0, !.slept = <<>>, !.error = "none",
                                     !.response = <<>>]
       IN DiscoveryStep(
            IF cached.hit
            THEN [call EXCEPT !.pc = "done", !.attempt = 0, !.source = "cache",
                              !.result = cached.data]
            ELSE [call EXCEPT !.pc = "fetch", !.attempt = 1, !.source = "none",
                              !.result = <<>>])

\* A findSellers that leaves the sellers in the registry's order.
MatchingSellersUnsorted(sellers, criteria) == FilterSellers(sellers, criteria)
\* A findSellers that hands out the demo sellers when nothing matches.
MatchingSellersOrDemo(sellers, criteria) ==
    LET filtered == FilterSellers(sellers, criteria)
    IN IF filtered = <<>> THEN GetFallbackSellers(criteria)
       ELSE SortSellers(filtered, criteria)
\* The try block of findSellers after searchSellers has returned:
\* filterSellers, then sortSellers.
MatchingSellers(sellers, criteria) ==
    SortSellers(FilterSellers(sellers, criteria), criteria)

\* An attempt of searchSellers succeeds: the valid sellers, normalized; then
\* filterSellers, sortSellers, setCached and the return of findSellers.
AttemptSucceeds(sellers) ==
    /\ discovery.pc = "fetch"
    /\ LET criteria == DiscoveryCriteria
           sortedSellers == MatchingSellers(ValidSellers(sellers), criteria)
       IN DiscoveryStep(
            [discovery EXCEPT
               !.requests = @ + 1,
               !.response = sellers,
               !.cache = SetCached(@, GenerateCacheKey(criteria), sortedSellers,
                                   discovery.clock),
               !.fromRegistry =
                   [c \in DOMAIN @ \cup {discovery.ci} |->
                       IF c = discovery.ci
                       THEN [data |-> sortedSellers, at |-> discovery.clock]
                       ELSE @[c]],
               !.pc = "done",
               !.source = "registry",
               !.result = sortedSellers])

\* An attempt of searchSellers throws. Before the last attempt the delay
\* timer is set. After the last one searchSellers throws lastError and
\* the catch block of findSellers returns the fallback sellers, or throws
\* the error when there is none.
AttemptFails(failure) ==
    /\ discovery.pc = "fetch"
    /\ LET failed == [discovery EXCEPT !.requests = @ + 1, !.error = failure]
           fallbackSellers == GetFallbackSellers(DiscoveryCriteria)
       IN DiscoveryStep(
            IF discovery.attempt < discovery.retryAttempts
            THEN [failed EXCEPT !.pc = "backoff",
                                !.slept = Append(@, BackoffDelay(discovery.attempt))]
            ELSE IF Len(fallbackSellers) > 0
                 THEN [failed EXCEPT !.pc = "done", !.source = "fallback",
                                     !.result = fallbackSellers]
                 ELSE [failed EXCEPT !.pc = "done", !.source = "error"])

\* The delay timer fires: the next attempt.
BackoffOver ==
    /\ discovery.pc = "backoff"
    /\ DiscoveryStep([discovery EXCEPT
                        !.clock = @ + discovery.slept[Len(discovery.slept)],
                        !.attempt = @ + 1,
                        !.pc = "fetch"])

\* Time passes between calls.
ClockSteps == {CACHE_DURATION \div 2, CACHE_DURATION + 1}
DiscoveryTick(d) ==
    /\ discovery.pc \in {"idle", "done"}
    /\ discovery.clock + d <= MaxClock
    /\ DiscoveryStep([discovery EXCEPT !.clock = @ + d])

\* config.retryAttempts of the constructor; 0 stands for a config without it.
RetryAttemptsChoices == {0, MaxAttempts}

DiscoveryInit ==
    /\ StoreInit
    /\ OrchInit
    /\ agent = NoRun
    /\ discovery \in {NewDiscoveryClient(n) : n \in RetryAttemptsChoices}

DiscoveryNext ==
    \/ \E ci \in DOMAIN CriteriaChoices : FindSellers(ci)
    \/ \E sellers \in RegistryResponses : AttemptSucceeds(sellers)
    \/ \E failure \in AttemptFailures : AttemptFails(failure)
    \/ BackoffOver
    \/ \E d \in ClockSteps : DiscoveryTick(d)

SpecDiscovery == DiscoveryInit /\ [][DiscoveryNext]_vars

\* ------------------------------------------- CrewAIAgent: decision methods

\* context.preferences of the calls: none; a strategy of the list; custom
\* with and without customRequirements. maxPrice 0 is what the modal
\* sends for an empty max-price field.
ContextPreferences ==
    <<Undefined,
      [desiredDiscount |-> 20, maxPrice |-> 0, strategy |-> "balanced"],
      [desiredDiscount |-> 10, maxPrice |-> 85, strategy |-> "aggressive"],
      [desiredDiscount |-> 10, maxPrice |-> 85, strategy |-> "custom",
       customRequirements |-> "free shipping"],
      [desiredDiscount |-> 10, maxPrice |-> 85, strategy |-> "custom"]>>

\* The strategies table of getStrategyFromPreferences.
Strategies ==
    [aggressive |-> "Push for maximum discount, willing to walk away if target not met",
     balanced |-> "Fair negotiation seeking win-win outcome",
     conservative |-> "Accept reasonable offers quickly"]

\* A strategy text that ignores customRequirements.
GetStrategyFromTable(preferences) ==
    IF preferences = Undefined THEN "balanced"
    ELSE IF preferences.strategy \in DOMAIN Strategies
         THEN Strategies[preferences.strategy]
         ELSE "balanced"
\* getStrategyFromPreferences
GetStrategyFromPreferences(preferences) ==
    IF preferences = Undefined THEN "balanced"
    ELSE IF preferences.strategy = "custom" /\ TruthyString(preferences, "customRequirements")
         THEN preferences.customRequirements
         ELSE IF preferences.strategy \in DOMAIN Strategies
              THEN Strategies[preferences.strategy]
              ELSE "balanced"

\* The JSON objects the backend's text can hold. confidence is in
\* hundredths.
LLMObjects ==
    {[decision |-> "accept", reasoning |-> "r", confidence |-> 90],
     [decision |-> "counter", reasoning |-> "r", confidence |-> 70,
      nextAction |-> [type |-> "price_offer", parameters |-> [price |-> 80]]],
     [decision |-> "continue", reasoning |-> "r", confidence |-> 50],
     [decision |-> "maybe", reasoning |-> "r"],
     [reasoning |-> "r"],
     [shouldNegotiate |-> TRUE, reasoning |-> "r", targetPrice |-> 85, strategy |-> "s"],
     [shouldNegotiate |-> FALSE, reasoning |-> "r"]}

\* What callLLM resolves with (extractLLMResponse): the empty string when
\* the answer has no content, text without a brace that is not JSON,
\* text whose span from the first { to the last } is not JSON, text whose
\* span is a JSON object, and the JSON text null.
LLMResponses ==
    {[kind |-> "empty"], [kind |-> "prose"], [kind |-> "broken"],
     [kind |-> "scalar", value |-> Null]}
    \cup {[kind |-> "object", value |-> o] : o \in LLMObjects}

\* parseJSONResponse: JSON.parse of the span the regular expression
\* matches, else of the whole text; the fallback when JSON.parse throws.
ParseJSONResponse(response, fallback) ==
    CASE response.kind = "object" -> response.value
      [] response.kind = "scalar" -> response.value
      [] OTHER -> fallback

\* The fallback arguments of the two methods.
OpportunityFallback ==
    [shouldNegotiate |-> FALSE, reasoning |-> "Failed to analyze opportunity"]
OfferFallback ==
    [decision |-> "reject", reasoning |-> "Failed to analyze offer", confidence |-> 0]

EngineStep(next) ==
    /\ engine' = next
    /\ UNCHANGED <<storeVars, workerVars, agent, discovery, calls, sessionStats, reply, sweep, notifier, writers>>

\* One of the two methods is called on the agent.
EngineCall(method, pi) ==
    [pc |-> "llm", method |-> method, pi |-> pi, calls |-> engine.calls + 1,
     requests |-> 0]

\* analyzeNegotiationOpportunity up to its first await: the answer built
\* from the preferences when there are some, else the callLLM request.
AnalyzeNegotiationOpportunity(pi) ==
    /\ engine.pc \in {"idle", "returned", "threw"}
    /\ engine.calls < MaxEngineCalls
    /\ LET preferences == ContextPreferences[pi]
           call == EngineCall("analyzeNegotiationOpportunity", pi)
       IN EngineStep(
            IF preferences # Undefined
            THEN [call EXCEPT !.pc = "returned"] @@
                 [result |->
                    [shouldNegotiate |-> TRUE,
                     reasoning |-> "User has explicitly set negotiation preferences",
                     targetPrice |-> preferences.maxPrice,
                     strategy |-> GetStrategyFromPreferences(preferences)]]
            ELSE call)

\* analyzeOffer up to its await: the prompt, then the callLLM request.
AnalyzeOffer(pi) ==
    /\ engine.pc \in {"idle", "returned", "threw"}
    /\ engine.calls < MaxEngineCalls
    /\ EngineStep(EngineCall("analyzeOffer", pi))

\* callLLM resolves: the method returns what parseJSONResponse returns.
CallLLMResolves(response) ==
    /\ engine.pc = "llm"
    /\ EngineStep(
         [engine EXCEPT !.pc = "returned", !.requests = @ + 1] @@
         [response |-> response,
          result |-> ParseJSONResponse(response,
                        IF engine.method = "analyzeOffer" THEN OfferFallback
                        ELSE OpportunityFallback)])

\* callLLM throws (no client, the request fails, the answer is not ok):
\* the method has no catch block.
CallLLMThrows ==
    /\ engine.pc = "llm"
    /\ EngineStep([engine EXCEPT !.pc = "threw", !.requests = @ + 1])

EngineNext ==
    \/ \E pi \in DOMAIN ContextPreferences : AnalyzeNegotiationOpportunity(pi)
    \/ \E pi \in DOMAIN ContextPreferences : AnalyzeOffer(pi)
    \/ \E response \in LLMResponses : CallLLMResolves(response)
    \/ CallLLMThrows

SpecEngine == Init /\ [][EngineNext]_vars

\* ------------------------------------------------- claims about the store

AllDates(session) ==
    /\ IsDate(session.startTime)
    /\ IsDate(session.lastUpdate)
    /\ IsDate(session.expiresAt)
    /\ \A i \in DOMAIN session.negotiationLog : IsDate(session.negotiationLog[i].timestamp)
    /\ session.currentOffer # Undefined => IsDate(session.currentOffer.timestamp)

\* C8: the store is a map keyed by session id: every id has at most one row,
\* every id saved (and not deleted since) has exactly one, and getSession
\* returns for it the session most recently saved, equal field by field, with
\* the log in the same order and every timestamp a Date.
C8_SaveGetRoundTrip ==
    \A id \in SessionIds :
        LET rows == {r \in store : r.sessionId = id}
        IN /\ Cardinality(rows) <= 1
           /\ id \in DOMAIN lastSaved =>
                /\ Cardinality(rows) = 1
                /\ GetSession(store, id) = lastSaved[id]
                /\ AllDates(GetSession(store, id))
           /\ id \notin DOMAIN lastSaved => GetSession(store, id) = Null

\* Both ids saved, one of them re-saved with a two-entry log and an offer.
C8_Witness ==
    /\ DOMAIN lastSaved = SessionIds
    /\ \E id \in SessionIds :
          /\ Len(lastSaved[id].negotiationLog) = 2
          /\ lastSaved[id].negotiationLog[1].timestamp # lastSaved[id].negotiationLog[2].timestamp
          /\ lastSaved[id].currentOffer # Undefined
          /\ lastSaved[id].status = "completed"
          /\ GetSession(store, id) = lastSaved[id]

\* The rows a correct listActive has to return at time t.
ExpectedActive(st, t) ==
    {r \in st : r.status \in {"pending", "active"} /\ r.expiresAt.t > t}

\* C9: getActiveSessions returns exactly the stored sessions that are pending
\* or active and whose expiresAt is later than the time of the call, each
\* once; no expired and no completed or failed session is returned.
C9_ListActiveExact ==
    LET res == GetActiveSessions(store, now)
    IN /\ SeqToSet(res) = {RestoreDates(r) : r \in ExpectedActive(store, now)}
       /\ Len(res) = Cardinality(ExpectedActive(store, now))
       /\ \A i \in DOMAIN res :
             /\ res[i].expiresAt.t > now
             /\ res[i].status \in {"pending", "active"}
             /\ res[i] = GetSession(store, res[i].sessionId)

\* An active row saved while valid has expired, a pending row is still
\* valid: only the latter is listed.
C9_Witness ==
    /\ \E r \in store : r.status = "active" /\ r.expiresAt.t <= now /\ r.startTime.t < now
    /\ \E r \in store : r.status = "pending" /\ r.expiresAt.t > now
    /\ Len(GetActiveSessions(store, now)) = 1

\* C10: cleanupExpiredSessions removes every row whose expiresAt is not in
\* the future, keeps every row whose expiresAt is in the future, and resolves
\* with the number of rows it removed.
C10_CleanupRemovesExpired ==
    [][StoreCleanup =>
          /\ store' = {r \in store : r.expiresAt.t > now}
          /\ cleanupResult' = <<Cardinality(store) - Cardinality(store')>>]_vars

\* A cleanup has removed one expired row and kept one unexpired row.
C10_Witness ==
    /\ cleanupResult = <<1>>
    /\ Cardinality(store) = 1
    /\ \A r \in store : r.expiresAt.t > now
    /\ Cardinality(DOMAIN lastSaved) = 1

\* ------------------------------------------ claims about the orchestrator

TasksInFlight(id) == {k \in DOMAIN tasks : tasks[k].sid = id /\ InFlight(tasks[k])}

\* C1: for every session id at most one run of executeNegotiation is in
\* flight at any time; a retry or counter request for a session whose run
\* is still going never starts a second one beside it.
C1_OneTaskPerSession == \A id \in SessionIds : Cardinality(TasksInFlight(id)) <= 1

Terminal(status) == status \in {"completed", "failed"}

\* C2: once a session's status is completed or failed no operation changes
\* it, except an explicit retry, which resets it to pending.
C2_TerminalFinal ==
    [][\A id \in DOMAIN activeSessions :
          (Terminal(activeSessions[id].status) /\ id \in DOMAIN activeSessions')
          => \/ activeSessions'[id].status = activeSessions[id].status
             \/ /\ \E ok \in BOOLEAN : RetryNegotiation(id, ok)
                /\ activeSessions'[id].status = "pending"]_vars

\* The run k takes a step.
TaskStep(k) ==
    /\ k \in DOMAIN tasks
    /\ k \in DOMAIN tasks'
    /\ tasks'[k].pc # tasks[k].pc

\* C3: when the user has rejected a session while its run was in flight,
\* the run's later steps find the session failed and discard the result:
\* the session stays failed and its currentOffer is not overwritten.
C3_LateResultDiscarded ==
    [][\A k \in DOMAIN tasks :
          (/\ tasks[k].stale
           /\ activeSessions[tasks[k].sid].status = "failed"
           /\ TaskStep(k))
          => /\ activeSessions'[tasks[k].sid].status = "failed"
             /\ activeSessions'[tasks[k].sid].currentOffer =
                    activeSessions[tasks[k].sid].currentOffer]_vars

\* A log entry that carries the fallback tag.
IsFallbackEntry(step) == step.action = "fallback"

\* C5: when discovery or the connection fails, the run still ends the
\* session as completed through the local simulation, and the session's
\* negotiationLog then holds an entry tagged as fallback.
C5_FallbackTagged ==
    [][\A k \in DOMAIN tasks :
          ExecMock(k, TRUE)
          => LET row == RowOf(store', tasks[k].sid)
             IN /\ row.status = "completed"
                /\ \E i \in DOMAIN row.negotiationLog :
                      IsFallbackEntry(row.negotiationLog[i])]_vars

\* C6 as stated: whenever the fallback simulation produces the outcome of
\* a session whose preferences carry a maxPrice, whatever its value, the
\* persisted currentOffer.price does not exceed it.
C6_AnyMaxPrice ==
    [][\A k \in DOMAIN tasks :
          ExecMock(k, TRUE)
          => LET row == RowOf(store', tasks[k].sid)
             IN row.preferences # Undefined
                => row.currentOffer.price <= row.preferences.maxPrice]_vars

\* C6: whenever the fallback simulation produces the outcome of a session
\* whose preferences carry a maxPrice other than 0, the persisted
\* currentOffer.price does not exceed that maxPrice.
C6_FallbackWithinMaxPrice ==
    [][\A k \in DOMAIN tasks :
          ExecMock(k, TRUE)
          => LET row == RowOf(store', tasks[k].sid)
             IN (row.preferences # Undefined /\ row.preferences.maxPrice # 0)
                => row.currentOffer.price <= row.preferences.maxPrice]_vars

\* The fallback has written the outcome of a session with maxPrice 85: the
\* discount of 10 asks for 90 and the persisted price is 85. Only the
\* fallback leaves sellerEndpoint unset beside a currentOffer.
C6_Witness ==
    \E r \in store :
        /\ r.status = "completed"
        /\ r.sellerEndpoint = Undefined
        /\ r.preferences # Undefined
        /\ r.preferences.maxPrice = 85
        /\ r.currentOffer # Undefined
        /\ r.currentOffer.price = 85

\* C7: no savings figure that is persisted or reported is negative: the
\* stats total is at least 0 and every recorded deal's savings is
\* max(0, original price - final price).
C7_SavingsFloored ==
    /\ userStats.totalSavings >= 0
    /\ \A i \in DOMAIN deals :
          deals[i].savings = Max(0, deals[i].originalPrice - deals[i].finalPrice)

\* ------------------------------------------------ claims about the agent

\* The run has ended and every request succeeded, every decision was
\* counter with a next action.
ScenarioEnded == agent.pc = "done" /\ agent.scenario

PersistedActive(st, t) == {r \in st : r.status = "active" /\ r.expiresAt.t > t}

\* The step is a restart that interrupts a run or changes the map: no
\* other action empties tasks while a run is before its finally block or
\* two runs exist, and no other action changes the map alone.
RestartStep ==
    /\ tasks' = <<>>
    /\ mcp' = NotConnected
    /\ UNCHANGED <<agent, discovery, calls, sessionStats, engine, reply, sweep, notifier, writers, storeVars, started, issued, deals, saveFaults>>
    /\ \/ activeSessions' # activeSessions
       \/ \E k \in DOMAIN tasks : tasks[k].pc \notin {"cleanup", "failure"}
       \/ Cardinality(DOMAIN tasks) > 1

C11_RestartRestoresActive ==
    [][RestartStep =>
         \A r \in PersistedActive(store, now) :
            /\ \E i \in DOMAIN GetActiveSessions(store', now') :
                  GetActiveSessions(store', now')[i] = RestoreDates(r)
            /\ r.sessionId \in DOMAIN activeSessions'
            /\ activeSessions'[r.sessionId] = RestoreDates(r)]_vars

\* A restart has happened in the middle of a negotiation: no run exists,
\* the client is reset, and the map holds the session as the store has
\* it, status active.
C11_Witness ==
    /\ tasks = <<>>
    /\ started > 0
    /\ PersistedActive(store, now) # {}
    /\ \A r \in PersistedActive(store, now) :
          /\ InMap(r.sessionId)
          /\ activeSessions[r.sessionId] = RestoreDates(r)

\* ------------------------------------------------------------------- C12
\* A registry record with a non-empty id, name, endpoint and capability
\* list.
WellFormed(seller) ==
    /\ TruthyString(seller, "seller_id")
    /\ TruthyString(seller, "seller_name")
    /\ Has(seller, "mcp_connection")
    /\ TruthyString(seller.mcp_connection, "endpoint_url")
    /\ Has(seller, "capabilities")
    /\ seller.capabilities # <<>>

\* C12: when findSellers returns a list that came from the registry, the
\* list is made of the well-formed records of the answer only (those with
\* a non-empty id, name, endpoint and capability list), normalized,
\* filtered and sorted; every other record has been dropped.
C12_MalformedDropped ==
    (discovery.pc = "done" /\ discovery.source = "registry")
    => LET wellFormed == SelectSeq(discovery.response, WellFormed)
           normalized == [i \in DOMAIN wellFormed |-> NormalizeSellerEndpoint(wellFormed[i])]
       IN discovery.result =
             SortSellers(FilterSellers(normalized, DiscoveryCriteria), DiscoveryCriteria)

\* ------------------------------------------------------------------- C13
\* The run k leaves its finally block: the negotiation attempt is over.
AttemptFinished(k) ==
    /\ k \in DOMAIN tasks
    /\ tasks[k].pc = "cleanup"
    /\ k \in DOMAIN tasks' => tasks'[k].pc # "cleanup"

\* C13: when a negotiation attempt finishes, however it ended (seller's
\* deal, fallback deal or failure), disconnect has run and the client is
\* not connected any more; a disconnect of a client that is not connected
\* changes nothing.
C13_DisconnectedAfterAttempt ==
    [][\A k \in DOMAIN tasks :
          AttemptFinished(k)
          => /\ ~mcp'.isConnected
             /\ ~mcp.isConnected => mcp' = mcp]_vars

\* ------------------------------------------------------------------- C14
\* C14: the client is connected to one endpoint at a time. A connect to B
\* made while the client is connected to A tears the connection to A down
\* before it opens the one to B (the client is not connected when the
\* teardown is over), and when a connect to B returns the client is
\* connected and its current endpoint is B.
C14_OneEndpointAtATime ==
    [][\A p \in DOMAIN calls' :
          calls'[p].op = "connect"
          => /\ (p \notin DOMAIN calls /\ mcp.isConnected
                   /\ mcp.currentEndpoint # calls'[p].endpoint)
                => calls'[p].pc = "closing"
             /\ (p \in DOMAIN calls /\ calls[p].pc = "closing"
                   /\ calls'[p].pc = "connecting")
                => ~mcp'.isConnected
             /\ (calls'[p].pc = "returned"
                   /\ (p \in DOMAIN calls => calls[p].pc # "returned"))
                => mcp' = [isConnected |-> TRUE, currentEndpoint |-> calls'[p].endpoint]]_vars

\* ------------------------------------------------------------------- C15
\* A saveSession call of the orchestrator has been rejected in this step.
SaveFailed == saveFaults' > saveFaults

\* The session is failed, or a handler that marks it failed is pending:
\* the catch block of a run, or handleNegotiationFailure.
TreatedAsFailure(m, ts, id) ==
    \/ m[id].status = "failed"
    \/ \E k \in DOMAIN ts : ts[k].sid = id /\ ts[k].pc \in {"catch", "failure"}

\* C15: when persisting the session fails at any point of a negotiation,
\* the orchestrator treats this as a failure of the negotiation: the
\* session is marked failed (at once, or by the failure handler the
\* rejected save leads to); it is not left pending, active or completed.
C15_FailedSaveFailsSession ==
    [][SaveFailed =>
          \A id \in DOMAIN activeSessions' :
             TreatedAsFailure(activeSessions', tasks', id)]_vars

\* ------------------------------------------------------------------- C16
\* The map's entry for id has been written in this step.
EntryUpdated(id) ==
    /\ id \in DOMAIN activeSessions'
    /\ id \in DOMAIN activeSessions => activeSessions'[id] # activeSessions[id]

\* C16: the in-memory map never runs ahead of the store. After every
\* update of a session, the update's save rejected or not, the map's
\* entry equals the row the store holds for the session.
C16_MapNeverAhead ==
    [][\A id \in SessionIds :
          EntryUpdated(id)
          => /\ HasRow(store', id)
             /\ activeSessions'[id] = RestoreDates(RowOf(store', id))]_vars

\* ------------------------------------------------------------------- C17
\* The rows of the store that have not expired.
NonExpired(st, t) == {r \in st : r.expiresAt.t > t}

RECURSIVE SavingsOf(_)
SavingsOf(rows) ==
    IF rows = {} THEN 0
    ELSE LET r == CHOOSE x \in rows : TRUE
         IN Max(0, r.productInfo.price - r.currentOffer.price) + SavingsOf(rows \ {r})

\* C17: getSessionStats aggregates over the non-expired sessions only:
\* totalSessions, activeSessions (pending or active) and completedSessions
\* are their counts, successRate is completed / total and 0 when total is
\* 0, totalSavings is the sum of the savings of the completed sessions that
\* have an offer.
C17_StatsOverNonExpired ==
    sessionStats.pc = "resolved"
    => LET valid == NonExpired(store, now)
           completed == {r \in valid : r.status = "completed"}
           stats == sessionStats.stats
       IN /\ stats.totalSessions = Cardinality(valid)
          /\ stats.activeSessions =
                Cardinality({r \in valid : r.status \in {"pending", "active"}})
          /\ stats.completedSessions = Cardinality(completed)
          /\ stats.successRate = IF Cardinality(valid) = 0 THEN <<0, 1>>
                                 ELSE <<Cardinality(completed), Cardinality(valid)>>
          /\ stats.totalSavings =
                SavingsOf({r \in completed : r.currentOffer # Undefined})

\* The statistics of a store with an expired completed session and a live
\* completed session, both with an offer: one session, 20 saved.
C17_Witness ==
    /\ sessionStats.pc = "resolved"
    /\ \E r \in store : r.status = "completed" /\ r.currentOffer # Undefined
                        /\ r.expiresAt.t <= now
    /\ \E r \in store : r.status = "completed" /\ r.currentOffer # Undefined
                        /\ r.expiresAt.t > now
    /\ sessionStats.stats.totalSessions = 1
    /\ sessionStats.stats.successRate = <<1, 1>>
    /\ sessionStats.stats.totalSavings = 20

\* ------------------------------------------------------------------- C18
\* findSellers has been called in this step.
FindSellersCalled == discovery'.calls = discovery.calls + 1

\* The criteria whose cache key is that of criteria ci.
SameCacheKey(ci) ==
    {c \in DOMAIN CriteriaChoices :
        GenerateCacheKey(CriteriaChoices[c]) = GenerateCacheKey(CriteriaChoices[ci])}

\* C18: a findSellers call with the criteria of an earlier call that got
\* its list from the registry less than 5 minutes (300000 ms) before
\* returns that list and sends no registry request; when the list cached
\* for the criteria came from the registry more than 5 minutes before,
\* the call queries the registry again.
C18_CacheWithinTTL ==
    [][FindSellersCalled =>
          LET ci == discovery'.ci
              earlier == discovery.fromRegistry
          IN /\ (ci \in DOMAIN earlier /\ discovery.clock - earlier[ci].at < 300000)
                => /\ discovery'.pc = "done"
                   /\ discovery'.source = "cache"
                   /\ discovery'.result = earlier[ci].data
                   /\ discovery'.requests = 0
             /\ (/\ \E c \in SameCacheKey(ci) : c \in DOMAIN earlier
                 /\ \A c \in SameCacheKey(ci) :
                       c \in DOMAIN earlier => discovery.clock - earlier[c].at > 300000)
                => /\ discovery'.pc = "fetch"
                   /\ discovery'.source = "none"]_vars

\* A call has been answered from the cache with the list an earlier call
\* with the same criteria got from the registry, less than 5 minutes old.
C18_Witness ==
    /\ discovery.pc = "done"
    /\ discovery.source = "cache"
    /\ discovery.requests = 0
    /\ discovery.ci \in DOMAIN discovery.fromRegistry
    /\ discovery.clock > discovery.fromRegistry[discovery.ci].at
    /\ discovery.clock - discovery.fromRegistry[discovery.ci].at < 300000
    /\ discovery.result = discovery.fromRegistry[discovery.ci].data
    /\ discovery.result # <<>>

\* ------------------------------------------------------------------- C19
\* C19: a findSellers call that misses the cache sends at most
\* retryAttempts registry requests (3 when not configured). Every failed
\* attempt but the last is followed by a delay of
\* min(1000 * 2^(attempt-1), 10000) ms and the next attempt; the first
\* attempt that succeeds ends the retrying; after the last attempt there
\* is no delay.
C19_BoundedRetries ==
    /\ discovery.requests <= discovery.retryAttempts
    /\ discovery.retryAttempts \in {3, MaxAttempts}
    /\ \A i \in DOMAIN discovery.slept :
          discovery.slept[i] = Min(1000 * 2 ^ (i - 1), 10000)
    /\ discovery.pc = "fetch"
          => discovery.requests = discovery.attempt - 1
             /\ Len(discovery.slept) = discovery.requests
    /\ discovery.pc = "backoff"
          => discovery.requests = discovery.attempt
             /\ Len(discovery.slept) = discovery.requests
             /\ discovery.attempt < discovery.retryAttempts
    /\ (discovery.pc = "done" /\ discovery.source = "registry")
          => Len(discovery.slept) = discovery.requests - 1
    /\ (discovery.pc = "done" /\ discovery.source \in {"fallback", "error"})
          => discovery.requests = discovery.retryAttempts
             /\ Len(discovery.slept) = discovery.retryAttempts - 1
    /\ (discovery.pc = "done" /\ discovery.source = "cache")
          => discovery.requests = 0 /\ discovery.slept = <<>>

\* Every attempt of a call has failed, the last delays being the capped
\* ones, and no delay followed the last attempt.
C19_Witness ==
    /\ discovery.pc = "done"
    /\ discovery.source = "fallback"
    /\ discovery.retryAttempts > 5
    /\ discovery.requests = discovery.retryAttempts
    /\ discovery.slept[5] = 10000
    /\ Len(discovery.slept) = discovery.retryAttempts - 1

\* ------------------------------------------------------------------- C20
\* C20: when every registry attempt of a call has failed, the call returns
\* the demo sellers that satisfy the criteria, the highest score first,
\* and not an error; it throws the error only when no demo seller passes
\* the filter.
C20_FallbackFilteredSorted ==
    (discovery.pc = "done" /\ discovery.source \in {"fallback", "error"})
    => LET expected == SortSellers(FilterSellers(FallbackSellers, DiscoveryCriteria),
                                   DiscoveryCriteria)
       IN /\ discovery.requests = discovery.retryAttempts
          /\ discovery.source = "error" <=> expected = <<>>
          /\ discovery.source = "fallback" => discovery.result = expected
          /\ \A i \in DOMAIN discovery.result :
                /\ PassesFilter(discovery.result[i], DiscoveryCriteria)
                /\ \A j \in DOMAIN discovery.result :
                      i < j => CalculateSellerScore(discovery.result[i], DiscoveryCriteria)
                               >= CalculateSellerScore(discovery.result[j], DiscoveryCriteria)

\* Every attempt has failed and the call has returned one demo seller,
\* the other one having been filtered out by the criteria.
C20_Witness ==
    /\ discovery.pc = "done"
    /\ discovery.source = "fallback"
    /\ discovery.requests = discovery.retryAttempts
    /\ Len(discovery.result) = 1
    /\ discovery.result[1].sellerId = "demo-seller-001"

\* ------------------------------------------------------------------- C21
\* The raw sellers of a registry answer that are valid and pass the
\* filter of the criteria.
Matches(response, criteria) ==
    {j \in DOMAIN response :
        /\ ValidateSellerEndpoint(response[j])
        /\ PassesFilter(NormalizeSellerEndpoint(response[j]), criteria)}

\* C21: when the registry has answered a findSellers call and none of the
\* sellers it returned matches the criteria, the call returns the empty
\* list and no demo seller; every seller of a list that came from the
\* registry is one the registry returned; a call that returns the demo
\* sellers after an outage returns a non-empty list, so the empty list
\* tells "no sellers found" from the outage.
C21_ZeroResultPropagates ==
    /\ (discovery.pc = "done" /\ discovery.source = "registry")
          => /\ Matches(discovery.response, DiscoveryCriteria) = {}
                   => discovery.result = <<>>
             /\ \A i \in DOMAIN discovery.result :
                   /\ \E j \in Matches(discovery.response, DiscoveryCriteria) :
                         discovery.result[i] = NormalizeSellerEndpoint(discovery.response[j])
                   /\ \A f \in DOMAIN FallbackSellers :
                         discovery.result[i].sellerId # FallbackSellers[f].sellerId
    /\ (discovery.pc = "done" /\ discovery.source = "fallback")
          => /\ discovery.result # <<>>
             /\ discovery.requests = discovery.retryAttempts
             /\ discovery.error \in AttemptFailures

\* The registry has answered with sellers of which none matches the
\* criteria, and the call has returned the empty list.
C21_Witness ==
    /\ discovery.pc = "done"
    /\ discovery.source = "registry"
    /\ discovery.response # <<>>
    /\ Matches(discovery.response, DiscoveryCriteria) = {}
    /\ discovery.result = <<>>
    /\ GetFallbackSellers(DiscoveryCriteria) # <<>>

\* ------------------------------------------------------------------- C22
\* The backend's answer has the shape analyzeOffer expects.
ExpectedOfferShape(response) ==
    /\ response.kind = "object"
    /\ Has(response.value, "decision")
    /\ response.value.decision \in {"accept", "reject", "counter"}
    /\ Has(response.value, "reasoning")
    /\ Has(response.value, "confidence")
\* The backend's answer has the shape analyzeNegotiationOpportunity expects.
ExpectedOpportunityShape(response) ==
    /\ response.kind = "object"
    /\ Has(response.value, "shouldNegotiate")
    /\ Has(response.value, "reasoning")

\* C22: analyzeOffer and analyzeNegotiationOpportunity never throw;
\* analyzeOffer returns a decision that is accept, reject or counter, and
\* the default (reject, confidence 0) for a backend answer that has not
\* the expected shape; analyzeNegotiationOpportunity returns a result
\* with shouldNegotiate and reasoning, and the default (shouldNegotiate
\* false) for an answer that has not the expected shape.
C22_SafeDefault ==
    /\ engine.pc # "threw"
    /\ (engine.pc = "returned" /\ engine.method = "analyzeOffer")
          => /\ Has(engine.result, "decision")
             /\ engine.result.decision \in {"accept", "reject", "counter"}
             /\ ~ExpectedOfferShape(engine.response) => engine.result = OfferFallback
    /\ (engine.pc = "returned" /\ engine.method = "analyzeNegotiationOpportunity"
        /\ engine.requests > 0)
          => /\ Has(engine.result, "shouldNegotiate")
             /\ Has(engine.result, "reasoning")
             /\ ~ExpectedOpportunityShape(engine.response)
                   => engine.result = OpportunityFallback

\* ------------------------------------------------------------------- C23
\* C23: a call of analyzeNegotiationOpportunity whose context carries
\* preferences returns shouldNegotiate true, targetPrice = the
\* preferences' maxPrice and the strategy of the preferences (the custom
\* requirements for a custom strategy that has some, else the text of the
\* strategies table, else "balanced"), and sends no request to the
\* reasoning backend.
C23_PreferencesShortCircuit ==
    (engine.pc # "idle" /\ engine.method = "analyzeNegotiationOpportunity"
     /\ ContextPreferences[engine.pi] # Undefined)
    => LET preferences == ContextPreferences[engine.pi]
       IN /\ engine.pc = "returned"
          /\ engine.requests = 0
          /\ engine.result.shouldNegotiate = TRUE
          /\ engine.result.targetPrice = preferences.maxPrice
          /\ (preferences.strategy = "custom" /\ Has(preferences, "customRequirements"))
                => engine.result.strategy = preferences.customRequirements
          /\ (preferences.strategy = "custom" /\ ~Has(preferences, "customRequirements"))
                => engine.result.strategy = "balanced"
          /\ preferences.strategy = "aggressive"
                => engine.result.strategy =
                      "Push for maximum discount, willing to walk away if target not met"
          /\ preferences.strategy = "balanced"
                => engine.result.strategy = "Fair negotiation seeking win-win outcome"

\* A call with a custom strategy and a maximum price has returned the
\* user's requirements and price without a backend request.
C23_Witness ==
    /\ engine.pc = "returned"
    /\ engine.method = "analyzeNegotiationOpportunity"
    /\ engine.requests = 0
    /\ engine.result.shouldNegotiate = TRUE
    /\ engine.result.targetPrice = 85
    /\ engine.result.strategy = "free shipping"

\* ------------------------------------------------------------------- C24
\* retryNegotiation(id) has started a run of executeNegotiation in this
\* step.
RetryStarted(id) ==
    /\ started' = started + 1
    /\ started' \in DOMAIN tasks'
    /\ tasks'[started'].caller = "retry"
    /\ tasks'[started'].sid = id

\* C24: a retry that starts a new run has set the session's status to
\* pending and its negotiationLog to empty, in the map and in the store,
\* before the run starts at the first step of executeNegotiation; the
\* session keeps its id, no id is issued and no session is added.
C24_RetrySameSession ==
    [][\A id \in SessionIds :
          RetryStarted(id) =>
             /\ id \in DOMAIN activeSessions
             /\ DOMAIN activeSessions' = DOMAIN activeSessions
             /\ issued' = issued
             /\ activeSessions'[id].sessionId = id
             /\ activeSessions'[id].status = "pending"
             /\ activeSessions'[id].negotiationLog = <<>>
             /\ activeSessions'[id].startTime = activeSessions[id].startTime
             /\ HasRow(store', id)
             /\ RowOf(store', id).status = "pending"
             /\ RowOf(store', id).negotiationLog = <<>>
             /\ {r.sessionId : r \in store'} \subseteq {r.sessionId : r \in store} \cup {id}
             /\ tasks'[started'].pc = "call"]_vars

\* A session for which a run had been started has been retried: it is
\* pending in the map and in the store, under the only id issued, and the
\* new run is about to enter executeNegotiation.
C24_Witness ==
    \E k \in DOMAIN tasks :
       /\ tasks[k].caller = "retry"
       /\ tasks[k].pc = "call"
       /\ k > 1
       /\ activeSessions[tasks[k].sid].status = "pending"
       /\ HasRow(store, tasks[k].sid)
       /\ RowOf(store, tasks[k].sid).status = "pending"
       /\ issued = 1

\* ------------------------------------------------------------------- C25
\* C25: a session of the map that has a currentOffer has at least
\* currentOffer.rounds entries in its negotiationLog.
C25_RoundsWithinLog ==
    \A id \in DOMAIN activeSessions :
        activeSessions[id].currentOffer # Undefined
        => activeSessions[id].currentOffer.rounds <= Len(activeSessions[id].negotiationLog)

\* ------------------------------------------------------------------- C26
\* The run k completes its session on the real path in this step: the
\* seller has answered initiateNegotiation.
CompletedOnRealPath(k) ==
    /\ tasks[k].pc = "initiate"
    /\ TaskStep(k)
    /\ activeSessions'[tasks[k].sid].status = "completed"
    /\ activeSessions'[tasks[k].sid].sellerEndpoint # Undefined

\* C26: a run sets its session to completed on the real path only when
\* the decision engine has returned accept and the seller's acceptDeal
\* has succeeded, that is when the agent's negotiation has ended with
\* success after an accept decision.
C26_CompletedAfterAccept ==
    [][\A k \in DOMAIN tasks :
          CompletedOnRealPath(k)
          => /\ agent.pc = "done"
             /\ agent.result.success
             /\ agent.negotiationLog[Len(agent.negotiationLog)].action = "accept"]_vars

\* ------------------------------------------------------------------- C27
\* C27: a session of the map whose status is pending has no
\* sellerEndpoint.
C27_PendingWithoutSeller ==
    \A id \in DOMAIN activeSessions :
        activeSessions[id].status = "pending"
        => activeSessions[id].sellerEndpoint = Undefined

\* ------------------------------------------------------------------- C28
\* A request has been refused in this step.
RequestRefused == reply' # reply

\* C28: a deal action, accept deal, complete purchase or retry request
\* that names a session id which is not in the map is answered at once
\* with success: false, and the step changes no session of the map, no
\* row of the store, no run and no deal; a request that names a session
\* of the map is refused only by accept deal, for want of an offer.
C28_UnknownSessionRefused ==
    [][RequestRefused =>
          /\ reply'.type = "response"
          /\ reply'.success = FALSE
          /\ IF reply'.sessionId \in DOMAIN activeSessions
             THEN /\ activeSessions[reply'.sessionId].currentOffer = Undefined
                  /\ reply'.error = "Deal not found or no offer available"
             ELSE TRUE
          /\ activeSessions' = activeSessions
          /\ store' = store
          /\ lastSaved' = lastSaved
          /\ tasks' = tasks
          /\ started' = started
          /\ issued' = issued
          /\ deals' = deals
          /\ mcp' = mcp]_vars

\* A request has named a session that is in the store and, since the
\* service worker restarted, not in the map: it has been refused with
\* "Session not found" and the stored session is as it was saved.
C28_Witness ==
    /\ reply.type = "response"
    /\ reply.success = FALSE
    /\ "error" \in DOMAIN reply
    /\ reply.error = "Session not found"
    /\ \E r \in store :
          /\ r.sessionId = reply.sessionId
          /\ r.sessionId \notin DOMAIN activeSessions
          /\ r.status = "completed"
          /\ RestoreDates(r) = lastSaved[r.sessionId]

\* C29: a run of the cleanup alarm deletes exactly the sessions that have
\* expired and have not completed: it deletes no completed session and no
\* session whose expiresAt is still ahead, and after it neither the map
\* nor the store holds a session that is not completed and whose expiresAt
\* has passed.
SweepRan == sweep'.runs = sweep.runs + 1

PastExpiry(session, t) == session.expiresAt.t < t

C29_SweepDeletesExpired ==
    [][SweepRan =>
        /\ \A id \in DOMAIN activeSessions \ DOMAIN activeSessions' :
              /\ activeSessions[id].status # "completed"
              /\ activeSessions[id].expiresAt.t <= now
        /\ \A r \in store \ store' :
              r.status # "completed" /\ r.expiresAt.t <= now
        /\ \A id \in DOMAIN activeSessions' :
              ~(PastExpiry(activeSessions'[id], now) /\ activeSessions'[id].status # "completed")
        /\ \A r \in store' :
              ~(PastExpiry(r, now) /\ r.status # "completed")]_vars

\* C30: every deal that getActiveDeals returns belongs to a session of the
\* map whose expiresAt has not passed.
C30_DealsNotExpired ==
    \A deal \in GetActiveDeals(activeSessions) :
        /\ InMap(deal.sessionId)
        /\ ~PastExpiry(activeSessions[deal.sessionId], now)

\* ------------------------------------------------------------------- C31

\* analyzeOffer has just answered counter or continue with no nextAction.
DecidedWithoutNextAction ==
    /\ agent'.decisions = agent.decisions + 1
    /\ agent'.decision.decision \in {"counter", "continue"}
    /\ ~agent'.decision.nextAction

\* C31: when the decision engine returns counter or continue without a
\* nextAction, the negotiation ends there as a failure, and no makeOffer and
\* no other remote call is sent for that round.
C31_NoNextActionFails ==
    [][DecidedWithoutNextAction =>
        /\ agent'.pc = "done"
        /\ ~agent'.result.success
        /\ agent'.offers = agent.offers
        /\ agent'.negotiationLog[Len(agent'.negotiationLog)].round = agent.currentRound]_vars

\* A second round has ended on a continue decision without a nextAction.
C31_Witness ==
    /\ agent.pc = "done"
    /\ agent.decisions = 2
    /\ agent.decision.decision = "continue"
    /\ ~agent.decision.nextAction
    /\ agent.offers = 1

\* ------------------------------------------------------------------- C32

\* analyzeOffer has just answered counter with a nextAction.
DecidedCounter ==
    /\ agent'.decisions = agent.decisions + 1
    /\ agent'.decision.decision = "counter"
    /\ agent'.decision.nextAction

\* makeOffer has just settled.
OfferSettled == agent.pc = "offer" /\ agent'.counterResponse # agent.counterResponse

\* The counter offer a makeOffer answer carries.
ReturnedCounterOffer(response) ==
    IF "counterOffer" \in DOMAIN response.data THEN response.data.counterOffer
    ELSE response.data

\* C32: on a counter decision with a nextAction exactly one makeOffer is
\* sent for the round and no other is sent before the next decision. When
\* it succeeds the returned counter offer is the latest offer, the round
\* number grows by exactly one, and the next decision is taken on that offer
\* in that round. When it fails the negotiation ends failed, and an ended
\* negotiation takes no further step.
C32_OneOfferPerRound ==
    [][/\ DecidedCounter => agent'.offers = agent.offers + 1 /\ agent'.pc = "offer"
       /\ agent'.decisions = agent.decisions => agent'.offers = agent.offers
       /\ OfferSettled /\ agent'.counterResponse.success =>
             /\ agent'.lastSellerOffer = ReturnedCounterOffer(agent'.counterResponse)
             /\ agent'.currentRound = agent.currentRound + 1
             /\ agent'.pc = "delay"
       /\ agent'.decisions = agent.decisions + 1 /\ agent.decisions > 0 =>
             LET step == agent'.negotiationLog[Len(agent'.negotiationLog)]
                 before == agent.negotiationLog[Len(agent.negotiationLog)]
             IN /\ step.sellerOffer = ReturnedCounterOffer(agent.counterResponse)
                /\ step.round = before.round + 1
       /\ OfferSettled /\ ~agent'.counterResponse.success =>
             /\ agent'.pc = "done"
             /\ ~agent'.result.success
             /\ agent'.decisions = agent.decisions
       /\ agent.pc = "done" => agent' = agent]_vars

\* A second decision has been taken on the counter offer the seller
\* returned for the first.
C32_Witness ==
    /\ agent.decisions = 2
    /\ agent.offers >= 1
    /\ agent.counterResponse = [success |-> TRUE, data |-> [counterOffer |-> [price |-> 80]]]
    /\ agent.negotiationLog[3].sellerOffer = [price |-> 80]
    /\ agent.negotiationLog[3].round = 2

\* ------------------------------------------------------------------- C33

\* C33: the log of a negotiation starts with the round-0 analysis, its
\* round numbers never decrease, and while the accept-deal or the
\* make-offer request of a round is under way the decision of that round is
\* already the last entry of the log.
C33_LogOrdered ==
    LET log == agent.negotiationLog
    IN /\ agent.pc \notin {"analyze", "done"} => log # <<>>
       /\ log # <<>> => log[1].round = 0 /\ log[1].action = "analyze"
       /\ \A i, j \in DOMAIN log : i < j => log[i].round <= log[j].round
       /\ agent.pc \in {"accept", "offer"} =>
             /\ log[Len(log)].round = agent.currentRound
             /\ log[Len(log)].action = IF agent.pc = "accept" THEN "accept" ELSE "counter"
             /\ Len(log) = agent.decisions + 1

\* The make-offer request of the second round is under way.
C33_Witness ==
    /\ agent.pc = "offer"
    /\ agent.currentRound = 2
    /\ Len(agent.negotiationLog) = 3

\* ------------------------------------------------------------------- C34

\* The composite score as the claim words it, in ten-thousandths:
\* 0.4 rating + 0.3 successRate + 0.2 (1 - min(1, averageResponseTime/10000))
\* + 0.1 for the requested specialty + 0.02 per advanced capability.
CompositeScore(seller, criteria) ==
    seller.metadata.rating * 400
    + seller.metadata.successRate * 30
    + ((10000 - Min(10000, seller.metadata.averageResponseTime)) \div 5)
    + (IF "specialty" \in DOMAIN criteria
          /\ \E i \in DOMAIN seller.metadata.specialties :
                seller.metadata.specialties[i] = criteria.specialty
       THEN 1000 ELSE 0)
    + 200 * Cardinality({cap \in {"getProductInfo", "checkDealStatus", "acceptDeal"} :
                           \E i \in DOMAIN seller.capabilities : seller.capabilities[i] = cap})

\* C34: the list findSellers returns from the registry is in non-increasing
\* order of the composite score, so its first element has the highest one.
C34_SortedByScore ==
    discovery.pc = "done" /\ discovery.source = "registry"
    => \A i, j \in DOMAIN discovery.result :
          i < j => CompositeScore(discovery.result[i], DiscoveryCriteria)
                   >= CompositeScore(discovery.result[j], DiscoveryCriteria)

\* The registry listed the lower-scored seller first and findSellers
\* returned the two the other way round.
C34_Witness ==
    /\ discovery.pc = "done"
    /\ discovery.source = "registry"
    /\ discovery.response = <<RawLow, RawHigh>>
    /\ Len(discovery.result) = 2
    /\ discovery.result[1].sellerId = "seller-high"
    /\ CompositeScore(discovery.result[1], DiscoveryCriteria)
       > CompositeScore(discovery.result[2], DiscoveryCriteria)

\* ------------------------------------------------------------------- C35

\* C35: every run of executeNegotiation started by a start or a retry
\* request eventually leaves its session completed or failed, even when the
\* seller never answers the connect.
C35_RunEnds ==
    \A id \in SessionIds :
        (\E k \in DOMAIN tasks : tasks[k].sid = id)
        ~> (InMap(id) /\ activeSessions[id].status \in {"completed", "failed"})

\* ------------------------------------------------------------------- C36

\* createNotification has just been called.
NotificationRequested == notifier'.calls = notifier.calls + 1

C37_ConnectionKept ==
    \A k \in DOMAIN tasks :
        tasks[k].pc = "initiate"
        => mcp.isConnected /\ mcp.currentEndpoint = SellerFor(tasks[k].sid)

\* ------------------------------------------------------------------- C38

\* The stored log of the session holds the step.
StoredLogHas(id, step) ==
    \E i \in DOMAIN RowOf(store, id).negotiationLog :
        RowOf(store, id).negotiationLog[i].round = step.round

\* C38: when addNegotiationStep and updateSessionStatus calls for one
\* session interleave, every step added by a call that has returned is in
\* the stored log, and the stored status is the one written by the
\* updateSessionStatus call that returned last.
C38_NoLostUpdate ==
    \A w \in Returned(writers) :
        LET call == writers[w]
        IN /\ call.op = "addNegotiationStep" => StoredLogHas(call.sessionId, call.step)
           /\ call.op = "updateSessionStatus"
              /\ (\A v \in Returned(writers) :
                     writers[v].op = "updateSessionStatus"
                     /\ writers[v].sessionId = call.sessionId
                     => writers[v].order <= call.order)
              => RowOf(store, call.sessionId).status = call.status

\* ------------------------------------------------------------------- C39

\* The seller satisfies the rating floor, the response-time ceiling and the
\* specialty of the criteria.
Satisfies(seller, criteria) ==
    /\ "minRating" \in DOMAIN criteria => seller.metadata.rating >= criteria.minRating
    /\ "maxResponseTime" \in DOMAIN criteria
       => seller.metadata.averageResponseTime <= criteria.maxResponseTime
    /\ "specialty" \in DOMAIN criteria
       => \E i \in DOMAIN seller.metadata.specialties :
             seller.metadata.specialties[i] = criteria.specialty

\* C39: every seller of a list findSellers returns satisfies the rating
\* floor, the response-time ceiling and the specialty of the call that
\* receives the list, a list taken from the cache included.
C39_CachedListFitsCall ==
    discovery.pc = "done" /\ discovery.source # "error"
    => \A i \in DOMAIN discovery.result :
          Satisfies(discovery.result[i], DiscoveryCriteria)

\* ------------------------------------------------------------------- C40

\* The only call made on the client so far is a connect, and it has thrown.
OnlyConnectThrew ==
    /\ Len(calls) = 1
    /\ calls[1].op = "connect"
    /\ calls[1].pc = "threw"

\* C40: when the only connect made so far throws, the client is left not
\* connected with no current endpoint, and a connect to the same endpoint
\* made next starts a connection attempt instead of returning as already
\* connected.
C40_FailedConnectResets ==
    [][/\ OnlyConnectThrew' => mcp' = NotConnected
       /\ OnlyConnectThrew /\ Len(calls') = 2
          /\ calls'[2].op = "connect" /\ calls'[2].endpoint = calls[1].endpoint
          => calls'[2].pc = "connecting"]_vars

====
